---- MODULE Spec2Model ----
(***************************************************************************)
(* Model of route53-ip-update: the per-hostname reconciliation             *)
(* (get_changes_for_hostname), the paginated listing of a hostname         *)
(* (get_hostname_record_sets), the per-zone driver (update_zone), the      *)
(* change submission and propagation poll (update_route53_zone) and main.  *)
(*                                                                         *)
(* Rust's Option<T> is modelled as a sequence of length at most one:       *)
(* None is <<>> and Some(x) is <<x>>.  A Result is a record with the       *)
(* fields ok, value and err.  A DNS name is the sequence of its labels; a  *)
(* name written with a trailing dot ends with the empty label.             *)
(***************************************************************************)
EXTENDS Integers, Sequences, FiniteSets, TLC

VARIABLES
    hostname_config,  \* the HostnameConfig handed to get_changes_for_hostname
    default_ttl,      \* the default_ttl argument of get_changes_for_hostname
    desired_ipv4,     \* desired IPv4 HashSet, as a sequence in iteration order
    desired_ipv6,     \* desired IPv6 HashSet, as a sequence in iteration order
    record_sets,      \* the record sets listed for the hostname
    diff_result,      \* Option<Result<Vec<Change>>> of get_changes_for_hostname
    zone_config,      \* the Route53ZoneConfig handed to update_zone
    config_ttl,       \* config.ttl, the default_ttl argument of update_zone
    provider_listing, \* per hostname, the pages the provider serves for it
    futures,          \* per hostname, the output of its future once complete
    yielded,          \* hostnames whose output f.next() has returned
    all_changes,      \* all_changes of update_zone
    zone_pc,          \* where update_zone / update_route53_zone stands
    ci,               \* Option<ChangeInfo> of the latest reply
    change_id,        \* Option<String>, the identifier of the submitted change
    trace,            \* provider calls, sleeps and status matches, in order
    replies,          \* the provider's replies to the submission and the queries
    zone_result,      \* Option<Result<()>> of update_zone
    list_hostname,    \* the hostname handed to get_hostname_record_sets
    list_pages,       \* the replies the provider gives to its page requests
    list_out,         \* Option of its Result and of the page requests it sent
    config,           \* the Config main runs with
    zone_script,      \* per zone, the provider calls its update makes and its end
    main_pc,          \* where main stands
    pending,          \* the discovery futures of f not yet complete
    queries,          \* the address-discovery queries issued and how they ended
    ipv4_addresses,   \* ipv4_addresses of main
    ipv6_addresses,   \* ipv6_addresses of main
    errors_found,     \* errors_found of main
    zone_calls,       \* per zone, the provider calls its update has issued
    zone_status,      \* per zone, "running" or how its update ended
    exit_code         \* Option of the status the process ended with

diffVars == <<hostname_config, default_ttl, desired_ipv4, desired_ipv6,
              record_sets, diff_result>>

zoneVars == <<zone_config, config_ttl, provider_listing, futures,
              yielded, all_changes, zone_pc, ci, change_id, trace, replies,
              zone_result>>

readerVars == <<list_hostname, list_pages, list_out>>

mainVars == <<config, zone_script, main_pc, pending, queries, ipv4_addresses,
              ipv6_addresses, errors_found, zone_calls, zone_status, exit_code>>

\* What a zone update, a single reconciliation, a single listing and a run
\* of main leave alone.
outsideZone == <<diffVars, readerVars, mainVars>>

outsideDiff == <<zoneVars, readerVars, mainVars>>

outsideReader == <<diffVars, zoneVars, mainVars>>

outsideMain == <<diffVars, zoneVars, readerVars>>

vars == <<diffVars, zoneVars, readerVars, mainVars>>

(***************************************************************************)
(* Bounds                                                                  *)
(***************************************************************************)
MaxRecords == 3

MaxHostnames == 2

MaxPolls == 3

MaxPages == 2

MaxPageRecords == 2

MaxZones == 2

MaxZoneCalls == 2

(***************************************************************************)
(* Option and small helpers                                                *)
(***************************************************************************)
None == <<>>

Some(x) == <<x>>

Range(s) == {s[i] : i \in 1..Len(s)}

BoundedSeq(S, n) == UNION {[1..k -> S] : k \in 0..n}

unwrap_or(opt, dflt) == IF opt = None THEN dflt ELSE opt[1]

(***************************************************************************)
(* Ttl and the configuration types                                         *)
(***************************************************************************)
DEFAULT_TTL == 300

HostnameOnly(hostname) == [hostname |-> hostname, ttl |-> None]

HostnameAndTtl(hostname, ttl) == [hostname |-> hostname, ttl |-> Some(ttl)]

get_hostname(hc) == hc.hostname

get_ttl(hc) == hc.ttl

(***************************************************************************)
(* IP addresses: value.parse::<IpAddr>() and IpAddr::to_string().  An      *)
(* address is a record of its family and its bits; two spellings of the    *)
(* same IPv6 address parse to the same address.                            *)
(***************************************************************************)
V4(n) == [family |-> "V4", bits |-> n]

V6(n) == [family |-> "V6", bits |-> n]

ParseIpAddr(value) ==
    CASE value = "1.1.1.1" -> Some(V4(1))
      [] value = "2.2.2.2" -> Some(V4(2))
      [] value = "::1" -> Some(V6(1))
      [] value = "0:0:0:0:0:0:0:1" -> Some(V6(1))
      [] value = "::2" -> Some(V6(2))
      [] OTHER -> None

IpToString(ip) ==
    CASE ip = V4(1) -> "1.1.1.1"
      [] ip = V4(2) -> "2.2.2.2"
      [] ip = V6(1) -> "::1"
      [] ip = V6(2) -> "::2"

(***************************************************************************)
(* Route 53 model types                                                    *)
(***************************************************************************)
ResourceRecordSet(name, type, ttl, values, set_identifier) ==
    [name |-> name, type |-> type, ttl |-> ttl,
     resource_records |-> values, set_identifier |-> set_identifier]

Change(action, rrs) == [action |-> action, resource_record_set |-> rrs]

Ok(value) == [ok |-> TRUE, value |-> value, err |-> <<>>]

Err(kind, detail) == [ok |-> FALSE, value |-> <<>>, err |-> <<kind, detail>>]

(***************************************************************************)
(* get_ipaddrs_from_rrs                                                    *)
(***************************************************************************)
FirstInvalid(values) ==
    LET bad == {i \in 1..Len(values) : ParseIpAddr(values[i]) = None}
    IN  IF bad = {} THEN 0 ELSE CHOOSE i \in bad : \A j \in bad : i <= j

get_ipaddrs_from_rrs(rrs) ==
    LET values == rrs.resource_records
        bad == FirstInvalid(values)
    IN  IF bad # 0
        THEN [ok |-> FALSE, ipaddrs |-> {}, err |-> <<"InvalidIpAddr", values[bad]>>]
        ELSE [ok |-> TRUE,
              ipaddrs |-> {ParseIpAddr(values[i])[1] : i \in 1..Len(values)},
              err |-> <<>>]

(***************************************************************************)
(* get_changes_for_hostname: the pass over the listed record sets          *)
(***************************************************************************)
desired_ttl_of(hc, dflt_ttl) ==
    unwrap_or(get_ttl(hc), unwrap_or(dflt_ttl, DEFAULT_TTL))

\* Mutant: the TTL is compared with the built-in default only.
UpToDate_DefaultTtlOnly(rrs, existing, desired, desired_ttl) ==
    /\ rrs.set_identifier = None
    /\ existing = desired
    /\ rrs.ttl = Some(DEFAULT_TTL)

\* Mutant: a record set with the desired addresses is kept whatever its TTL.
UpToDate_IgnoresTtl(rrs, existing, desired, desired_ttl) ==
    /\ rrs.set_identifier = None
    /\ existing = desired

\* The condition of update.rs:106 and :139: the record set is already right.
UpToDate(rrs, existing, desired, desired_ttl) ==
    /\ rrs.set_identifier = None
    /\ existing = desired
    /\ rrs.ttl = Some(desired_ttl)

\* Mutant: the slot already taken is forgotten.
ShouldDelete_IgnoresSeen(rrs_seen, desired, rrs) ==
    \/ desired = <<>>
    \/ rrs.set_identifier # None

\* Mutant: a record set with a set identifier may be reused.
ShouldDelete_IgnoresSetIdentifier(rrs_seen, desired, rrs) ==
    \/ rrs_seen
    \/ desired = <<>>

\* The condition of update.rs:110 and :143: the record set must be deleted.
ShouldDelete(rrs_seen, desired, rrs) ==
    \/ rrs_seen
    \/ desired = <<>>
    \/ rrs.set_identifier # None

\* Mutant: the Upsert carries the built-in default TTL.
UpsertRecordSet_DefaultTtl(hostname, type, desired_ttl, desired) ==
    ResourceRecordSet(Some(hostname), Some(type), Some(DEFAULT_TTL),
                      [i \in 1..Len(desired) |-> IpToString(desired[i])], None)

\* The record set built for an Upsert; the records follow the iteration
\* order of the desired HashSet.
UpsertRecordSet(hostname, type, desired_ttl, desired) ==
    ResourceRecordSet(Some(hostname), Some(type), Some(desired_ttl),
                      [i \in 1..Len(desired) |-> IpToString(desired[i])], None)

DeleteChange(rrs) == Change("DELETE", rrs)

UpsertChange(hostname, type, desired_ttl, desired) ==
    Change("UPSERT", UpsertRecordSet(hostname, type, desired_ttl, desired))

\* Mutant: the flags start false even when nothing is desired.
ScanStart_AlwaysUnseen(d4, d6) ==
    [changes |-> <<>>, ipv4_seen |-> FALSE, ipv6_seen |-> FALSE, err |-> None]

\* Loop state: changes, desired_ipv4_rrs_seen, desired_ipv6_rrs_seen and the
\* error that ended the pass, if any.
ScanStart(d4, d6) ==
    [changes |-> <<>>, ipv4_seen |-> d4 = <<>>, ipv6_seen |-> d6 = <<>>,
     err |-> None]

\* Mutant: the Upsert of a listed record set does not take the slot.
ExamineA_UpsertLeavesUnseen(st, rrs, hostname, d4, desired_ttl) ==
    LET existing_ipv4 == get_ipaddrs_from_rrs(rrs)
    IN  IF ~existing_ipv4.ok
        THEN [st EXCEPT !.err = Some(existing_ipv4.err)]
        ELSE IF UpToDate(rrs, existing_ipv4.ipaddrs, Range(d4), desired_ttl)
        THEN [st EXCEPT !.ipv4_seen = TRUE]
        ELSE IF ShouldDelete(st.ipv4_seen, d4, rrs)
        THEN [st EXCEPT !.changes = Append(@, DeleteChange(rrs))]
        ELSE [st EXCEPT !.changes = Append(@, UpsertChange(hostname, "A", desired_ttl, d4))]

\* Mutant: a Delete takes the slot, so nothing is created afterwards.
ExamineA_DeleteMarksSeen(st, rrs, hostname, d4, desired_ttl) ==
    LET existing_ipv4 == get_ipaddrs_from_rrs(rrs)
    IN  IF ~existing_ipv4.ok
        THEN [st EXCEPT !.err = Some(existing_ipv4.err)]
        ELSE IF UpToDate(rrs, existing_ipv4.ipaddrs, Range(d4), desired_ttl)
        THEN [st EXCEPT !.ipv4_seen = TRUE]
        ELSE IF ShouldDelete(st.ipv4_seen, d4, rrs)
        THEN [st EXCEPT !.ipv4_seen = TRUE,
                        !.changes = Append(@, DeleteChange(rrs))]
        ELSE [st EXCEPT !.ipv4_seen = TRUE,
                        !.changes = Append(@, UpsertChange(hostname, "A", desired_ttl, d4))]

\* update.rs:102-133: one listed A record set.
ExamineA(st, rrs, hostname, d4, desired_ttl) ==
    LET existing_ipv4 == get_ipaddrs_from_rrs(rrs)
    IN  IF ~existing_ipv4.ok
        THEN [st EXCEPT !.err = Some(existing_ipv4.err)]
        ELSE IF UpToDate(rrs, existing_ipv4.ipaddrs, Range(d4), desired_ttl)
        THEN [st EXCEPT !.ipv4_seen = TRUE]
        ELSE IF ShouldDelete(st.ipv4_seen, d4, rrs)
        THEN [st EXCEPT !.changes = Append(@, DeleteChange(rrs))]
        ELSE [st EXCEPT !.ipv4_seen = TRUE,
                        !.changes = Append(@, UpsertChange(hostname, "A", desired_ttl, d4))]

ExamineAaaa(st, rrs, hostname, d6, desired_ttl) ==
    LET existing_ipv6 == get_ipaddrs_from_rrs(rrs)
    IN  IF ~existing_ipv6.ok
        THEN [st EXCEPT !.err = Some(existing_ipv6.err)]
        ELSE IF UpToDate(rrs, existing_ipv6.ipaddrs, Range(d6), desired_ttl)
        THEN [st EXCEPT !.ipv6_seen = TRUE]
        ELSE IF ShouldDelete(st.ipv6_seen, d6, rrs)
        THEN [st EXCEPT !.changes = Append(@, DeleteChange(rrs))]
        ELSE [st EXCEPT !.ipv6_seen = TRUE,
                        !.changes = Append(@, UpsertChange(hostname, "AAAA", desired_ttl, d6))]

\* Mutant: CNAME record sets are preserved like the other types.
ExamineCname_Preserves(st, rrs) == st

ExamineCname(st, rrs) ==
    [st EXCEPT !.changes = Append(@, DeleteChange(rrs))]

\* Mutant: a record set of any other type is deleted like a CNAME.
ExamineOther_Deletes(st, rrs) ==
    [st EXCEPT !.changes = Append(@, DeleteChange(rrs))]

\* update.rs:176-179: every other type is left alone.
ExamineOther(st, rrs) == st

ExamineRecordSet(st, rrs, hostname, d4, d6, desired_ttl) ==
    CASE rrs.type = None ->
            [st EXCEPT !.err = Some(<<"MissingExpectedAwsReplyField", "Type">>)]
      [] rrs.type = Some("A") -> ExamineA(st, rrs, hostname, d4, desired_ttl)
      [] rrs.type = Some("AAAA") -> ExamineAaaa(st, rrs, hostname, d6, desired_ttl)
      [] rrs.type = Some("CNAME") -> ExamineCname(st, rrs)
      [] OTHER -> ExamineOther(st, rrs)

RECURSIVE ScanRecordSets(_, _, _, _, _, _, _)
ScanRecordSets(st, rs, i, hostname, d4, d6, desired_ttl) ==
    IF i > Len(rs) \/ st.err # None
    THEN st
    ELSE ScanRecordSets(ExamineRecordSet(st, rs[i], hostname, d4, d6, desired_ttl),
                        rs, i + 1, hostname, d4, d6, desired_ttl)

\* Mutant: the A create is guarded by the IPv6 flag.
CreateMissing_CopyPaste(st, hostname, d4, d6, desired_ttl) ==
    LET with4 == IF ~st.ipv6_seen
                 THEN Append(st.changes, UpsertChange(hostname, "A", desired_ttl, d4))
                 ELSE st.changes
    IN  IF ~st.ipv6_seen
        THEN Append(with4, UpsertChange(hostname, "AAAA", desired_ttl, d6))
        ELSE with4

\* Mutant: the AAAA create is pushed before the A create.
CreateMissing_AaaaFirst(st, hostname, d4, d6, desired_ttl) ==
    LET with6 == IF ~st.ipv6_seen
                 THEN Append(st.changes, UpsertChange(hostname, "AAAA", desired_ttl, d6))
                 ELSE st.changes
    IN  IF ~st.ipv4_seen
        THEN Append(with6, UpsertChange(hostname, "A", desired_ttl, d4))
        ELSE with6

\* Mutant: both creates are pushed whatever the pass has seen.
CreateMissing_Unguarded(st, hostname, d4, d6, desired_ttl) ==
    Append(Append(st.changes, UpsertChange(hostname, "A", desired_ttl, d4)),
           UpsertChange(hostname, "AAAA", desired_ttl, d6))

\* update.rs:183-209: create what no listed record set provided.
CreateMissing(st, hostname, d4, d6, desired_ttl) ==
    LET with4 == IF ~st.ipv4_seen
                 THEN Append(st.changes, UpsertChange(hostname, "A", desired_ttl, d4))
                 ELSE st.changes
    IN  IF ~st.ipv6_seen
        THEN Append(with4, UpsertChange(hostname, "AAAA", desired_ttl, d6))
        ELSE with4

\* listing is the Result of get_hostname_record_sets (update.rs:90).
get_changes_for_hostname(listing, hc, d4, d6, dflt_ttl) ==
    LET hostname == get_hostname(hc)
        desired_ttl == desired_ttl_of(hc, dflt_ttl)
        st == ScanRecordSets(ScanStart(d4, d6), listing.value, 1,
                             hostname, d4, d6, desired_ttl)
    IN  IF ~listing.ok THEN listing
        ELSE IF st.err # None THEN Err(st.err[1][1], st.err[1][2])
        ELSE Ok(CreateMissing(st, hostname, d4, d6, desired_ttl))

(***************************************************************************)
(* The inputs of the reconciliation                                        *)
(***************************************************************************)
HostLabels == <<"www", "mail", "ftp", "ns">>

\* The i-th configured name; the second one is written with a trailing dot.
HostnameOf(i) ==
    IF i = 2 THEN <<HostLabels[i], "example", "com", "">>
    ELSE <<HostLabels[i], "example", "com">>

ends_with_dot(hostname) == hostname # <<>> /\ hostname[Len(hostname)] = ""

\* update.rs:271-275
hostname_dot_of(hostname) ==
    IF ends_with_dot(hostname) THEN hostname ELSE Append(hostname, "")

Hostname == HostnameOf(1)

HostnameDot == hostname_dot_of(Hostname)

Rrs(type, ttl, values, set_identifier) ==
    ResourceRecordSet(Some(HostnameDot), type, ttl, values, set_identifier)

RecordUniverse ==
    {Rrs(Some("A"), Some(300), <<"1.1.1.1">>, None),
     Rrs(Some("A"), Some(60), <<"1.1.1.1">>, None),
     Rrs(Some("A"), Some(300), <<"2.2.2.2", "1.1.1.1">>, None),
     Rrs(Some("A"), Some(300), <<"1.1.1.1">>, Some("weighted")),
     Rrs(Some("A"), Some(300), <<"not-an-address">>, None),
     Rrs(Some("A"), None, <<>>, None),
     Rrs(Some("A"), Some(300), <<"::1">>, None),
     Rrs(Some("AAAA"), Some(300), <<"::1">>, None),
     Rrs(Some("AAAA"), Some(60), <<"0:0:0:0:0:0:0:1">>, None),
     Rrs(Some("AAAA"), Some(300), <<"::2">>, None),
     Rrs(Some("AAAA"), Some(300), <<"::1">>, Some("weighted")),
     Rrs(Some("CNAME"), Some(300), <<"other.example.">>, None),
     Rrs(Some("CNAME"), Some(300), <<"other.example.">>, Some("weighted")),
     Rrs(Some("TXT"), Some(300), <<"text">>, None),
     Rrs(Some("TXT"), Some(300), <<"text">>, Some("weighted")),
     Rrs(None, Some(300), <<>>, None)}

\* A HashSet iterates in an unspecified order: both orders of two addresses.
DesiredIpv4Choices == {<<>>, <<V4(1)>>, <<V4(1), V4(2)>>, <<V4(2), V4(1)>>}

DesiredIpv6Choices == {<<>>, <<V6(1)>>}

HostnameConfigChoices == {HostnameOnly(Hostname), HostnameAndTtl(Hostname, 60)}

(***************************************************************************)
(* Specification of the reconciliation of one hostname                     *)
(***************************************************************************)
\* No zone update is running.
ZoneIdle ==
    /\ zone_config = [zone_id |-> "Z1", hostnames |-> <<>>, ttl |-> None]
    /\ config_ttl = None
    /\ provider_listing = <<>>
    /\ futures = <<>>
    /\ yielded = {}
    /\ all_changes = <<>>
    /\ zone_pc = "idle"
    /\ ci = None
    /\ change_id = None
    /\ trace = <<>>
    /\ replies = <<>>
    /\ zone_result = None

\* No single reconciliation is running.
DiffIdle ==
    /\ hostname_config = HostnameOnly(Hostname)
    /\ default_ttl = None
    /\ record_sets = <<>>
    /\ diff_result = None

\* No single listing is running.
ReaderIdle ==
    /\ list_hostname = Hostname
    /\ list_pages = <<>>
    /\ list_out = None

\* main is not running.
MainIdle ==
    /\ config = [query_interfaces |-> FALSE, query_ip_service |-> FALSE,
                 ip_service |-> "", address_type |-> "Both", route53_zones |-> <<>>]
    /\ zone_script = <<>>
    /\ main_pc = "idle"
    /\ pending = {}
    /\ queries = <<>>
    /\ ipv4_addresses = {}
    /\ ipv6_addresses = {}
    /\ errors_found = FALSE
    /\ zone_calls = <<>>
    /\ zone_status = <<>>
    /\ exit_code = None

InitDiff ==
    /\ hostname_config \in HostnameConfigChoices
    /\ default_ttl = None
    /\ desired_ipv4 \in DesiredIpv4Choices
    /\ desired_ipv6 \in DesiredIpv6Choices
    /\ record_sets \in BoundedSeq(RecordUniverse, MaxRecords)
    /\ diff_result = None
    /\ ZoneIdle
    /\ ReaderIdle
    /\ MainIdle

GetChanges ==
    /\ diff_result = None
    /\ diff_result' = Some(get_changes_for_hostname(Ok(record_sets), hostname_config,
                                                    desired_ipv4, desired_ipv6,
                                                    default_ttl))
    /\ UNCHANGED <<hostname_config, default_ttl, desired_ipv4, desired_ipv6,
                   record_sets>>
    /\ UNCHANGED outsideDiff

NextDiff == GetChanges

SpecDiff == InitDiff /\ [][NextDiff]_vars

(***************************************************************************)
(* Vocabulary of the properties of the reconciliation                      *)
(***************************************************************************)
DiffDone == diff_result # None

DiffOk == DiffDone /\ diff_result[1].ok

DiffChanges == IF DiffDone THEN diff_result[1].value ELSE <<>>

\* The TTL the configuration asks for: hostname level, else the default
\* handed down by the zone, else 300 seconds.
ExpectedTtl ==
    IF hostname_config.ttl # None THEN hostname_config.ttl[1]
    ELSE IF default_ttl # None THEN default_ttl[1]
    ELSE 300

DesiredOf(type) == IF type = "A" THEN desired_ipv4 ELSE desired_ipv6

IndicesOfType(type) ==
    {i \in 1..Len(record_sets) : record_sets[i].type = <<type>>}

\* Indices of the listed record sets of a type that carry no set identifier.
UnroutedOfType(type) ==
    {i \in IndicesOfType(type) : record_sets[i].set_identifier = <<>>}

ChangesOfType(type) ==
    {k \in 1..Len(DiffChanges) : DiffChanges[k].resource_record_set.type = <<type>>}

UpsertsOfType(type) ==
    {k \in ChangesOfType(type) : DiffChanges[k].action = "UPSERT"}

\* Positions of the changes that delete exactly the record set r.
DeletesOf(r) ==
    {k \in 1..Len(DiffChanges) :
        DiffChanges[k].action = "DELETE" /\ DiffChanges[k].resource_record_set = r}

Occurrences(r) == {i \in 1..Len(record_sets) : record_sets[i] = r}

AllParse(r) ==
    \A j \in 1..Len(r.resource_records) : ParseIpAddr(r.resource_records[j]) # <<>>

AddressesOf(r) ==
    {ParseIpAddr(r.resource_records[j])[1] : j \in 1..Len(r.resource_records)}

\* The record set has no set identifier and holds the desired values and TTL.
Matches(r, type) ==
    /\ r.set_identifier = <<>>
    /\ AllParse(r)
    /\ AddressesOf(r) = Range(DesiredOf(type))
    /\ r.ttl = <<ExpectedTtl>>

\* The state a type is in when nothing has to change for it.
Settled(type) ==
    \/ /\ IndicesOfType(type) # {}
       /\ \A i \in IndicesOfType(type) : Matches(record_sets[i], type)
    \/ /\ IndicesOfType(type) = {}
       /\ DesiredOf(type) = <<>>

\* The Upsert the configuration asks for, whatever the order of its values.
IsDesiredUpsert(c, type) ==
    /\ c.action = "UPSERT"
    /\ c.resource_record_set.name = <<Hostname>>
    /\ c.resource_record_set.type = <<type>>
    /\ c.resource_record_set.set_identifier = <<>>
    /\ c.resource_record_set.ttl = <<ExpectedTtl>>
    /\ Len(c.resource_record_set.resource_records) = Len(DesiredOf(type))
    /\ AllParse(c.resource_record_set)
    /\ AddressesOf(c.resource_record_set) = Range(DesiredOf(type))

(***************************************************************************)
(* C1 Idempotence: a type whose listed record sets all match the desired   *)
(* values and TTL without set identifier (or that has no record set and    *)
(* nothing desired) gets no Change; when this holds of A and AAAA and no   *)
(* CNAME is listed, the change list is empty.                              *)
(***************************************************************************)
C1_Idempotence ==
    DiffDone =>
        /\ \A type \in {"A", "AAAA"} : Settled(type) => ChangesOfType(type) = {}
        /\ (Settled("A") /\ Settled("AAAA") /\ IndicesOfType("CNAME") = {})
              => DiffChanges = <<>>

C1_Witness ==
    /\ DiffOk
    /\ DiffChanges = <<>>
    /\ hostname_config.ttl = <<60>>
    /\ \E i \in IndicesOfType("A") : Matches(record_sets[i], "A")
    /\ \E i \in IndicesOfType("AAAA") :
          /\ Matches(record_sets[i], "AAAA")
          /\ record_sets[i].resource_records = <<"0:0:0:0:0:0:0:1">>
    /\ Settled("A") /\ Settled("AAAA")

(***************************************************************************)
(* C2 Exactly-one-slot, as stated: with two or more listed record sets of  *)
(* a type without set identifier, at most one of them is upserted and      *)
(* every other one is deleted.                                             *)
(***************************************************************************)
DeletesOfUnrouted(type) ==
    {k \in 1..Len(DiffChanges) :
        /\ DiffChanges[k].action = "DELETE"
        /\ \E i \in UnroutedOfType(type) :
              DiffChanges[k].resource_record_set = record_sets[i]}

C2_AsStated ==
    \A type \in {"A", "AAAA"} :
        (DiffOk /\ Cardinality(UnroutedOfType(type)) >= 2) =>
            /\ Cardinality(UpsertsOfType(type)) <= 1
            /\ Cardinality(DeletesOfUnrouted(type)) =
                  Cardinality(UnroutedOfType(type)) - Cardinality(UpsertsOfType(type))

(***************************************************************************)
(* C2 Exactly-one-slot, amended: with two or more listed record sets of a  *)
(* type without set identifier, those that already hold the desired values *)
(* and TTL get no Change, at most one of the others is upserted and every  *)
(* remaining one is deleted.                                               *)
(***************************************************************************)
MatchingUnrouted(type) ==
    {i \in UnroutedOfType(type) : Matches(record_sets[i], type)}

C2_ExactlyOneSlot ==
    \A type \in {"A", "AAAA"} :
        (DiffOk /\ Cardinality(UnroutedOfType(type)) >= 2) =>
            /\ Cardinality(UpsertsOfType(type)) <= 1
            /\ \A k \in UpsertsOfType(type) : IsDesiredUpsert(DiffChanges[k], type)
            /\ \A i \in UnroutedOfType(type) :
                  IF Matches(record_sets[i], type)
                  THEN DeletesOf(record_sets[i]) = {}
                  ELSE Cardinality(Occurrences(record_sets[i]))
                          - Cardinality(DeletesOf(record_sets[i])) \in {0, 1}
            /\ Cardinality(DeletesOfUnrouted(type)) =
                  Cardinality(UnroutedOfType(type))
                      - Cardinality(MatchingUnrouted(type))
                      - Cardinality(UpsertsOfType(type))

C2_Witness ==
    /\ DiffOk
    /\ Cardinality(UnroutedOfType("A")) = 3
    /\ Cardinality(MatchingUnrouted("A")) = 1
    /\ Cardinality(UpsertsOfType("A")) = 1
    /\ Cardinality(DeletesOfUnrouted("A")) = 1

(***************************************************************************)
(* C3 Foreign-record removal, as stated: every listed record set with a    *)
(* set identifier, whatever its type, is deleted and never upserted.       *)
(***************************************************************************)
Routed == {i \in 1..Len(record_sets) : record_sets[i].set_identifier # <<>>}

\* The changes the pass derives from the i-th listed record set.
DerivedFrom(i) ==
    LET before == ScanRecordSets(ScanStart(desired_ipv4, desired_ipv6),
                                 SubSeq(record_sets, 1, i - 1), 1, Hostname,
                                 desired_ipv4, desired_ipv6, ExpectedTtl).changes
        after == ScanRecordSets(ScanStart(desired_ipv4, desired_ipv6),
                                SubSeq(record_sets, 1, i), 1, Hostname,
                                desired_ipv4, desired_ipv6, ExpectedTtl).changes
    IN  SubSeq(after, Len(before) + 1, Len(after))

DeletedNotUpserted(i) ==
    /\ Cardinality(DeletesOf(record_sets[i])) = Cardinality(Occurrences(record_sets[i]))
    /\ DerivedFrom(i) = <<[action |-> "DELETE", resource_record_set |-> record_sets[i]]>>

C3_AsStated ==
    DiffOk => \A i \in Routed : DeletedNotUpserted(i)

(***************************************************************************)
(* C3 Foreign-record removal, amended: every listed record set of type A,  *)
(* AAAA or CNAME with a set identifier is deleted and never upserted,      *)
(* whether or not its values and TTL match; record sets of other types     *)
(* get no Change even with a set identifier.                               *)
(***************************************************************************)
C3_ForeignRemoval ==
    DiffOk =>
        \A i \in Routed :
            IF record_sets[i].type \in {<<"A">>, <<"AAAA">>, <<"CNAME">>}
            THEN DeletedNotUpserted(i)
            ELSE DeletesOf(record_sets[i]) = {} /\ DerivedFrom(i) = <<>>

C3_Witness ==
    /\ DiffOk
    /\ desired_ipv4 = <<[family |-> "V4", bits |-> 1]>>
    /\ ExpectedTtl = 300
    /\ \E i \in Routed :
          /\ record_sets[i].type = <<"A">>
          /\ record_sets[i].resource_records = <<"1.1.1.1">>
          /\ record_sets[i].ttl = <<300>>
          /\ DeletesOf(record_sets[i]) # {}
    /\ UpsertsOfType("A") # {}

(***************************************************************************)
(* C4 CNAME exclusion: every listed CNAME record set is deleted, whatever  *)
(* is desired and whatever else is listed.                                 *)
(***************************************************************************)
C4_CnameExclusion ==
    DiffOk =>
        \A i \in IndicesOfType("CNAME") :
            /\ Cardinality(DeletesOf(record_sets[i])) =
                  Cardinality(Occurrences(record_sets[i]))
            /\ DerivedFrom(i) =
                  <<[action |-> "DELETE", resource_record_set |-> record_sets[i]]>>

C4_Witness ==
    /\ DiffOk
    /\ desired_ipv4 = <<>>
    /\ desired_ipv6 = <<>>
    /\ Len(record_sets) = 1
    /\ record_sets[1].type = <<"CNAME">>
    /\ DiffChanges = <<[action |-> "DELETE", resource_record_set |-> record_sets[1]]>>

(***************************************************************************)
(* C5 Create-when-absent: with no listed record set of a type and a        *)
(* non-empty desired set of that family, the result holds exactly one      *)
(* Change of the type: an Upsert of the hostname with the desired TTL and  *)
(* the desired values.                                                     *)
(***************************************************************************)
C5_CreateWhenAbsent ==
    \A type \in {"A", "AAAA"} :
        (DiffOk /\ IndicesOfType(type) = {} /\ DesiredOf(type) # <<>>) =>
            /\ Cardinality(ChangesOfType(type)) = 1
            /\ \A k \in ChangesOfType(type) : IsDesiredUpsert(DiffChanges[k], type)

C5_Witness ==
    /\ DiffOk
    /\ IndicesOfType("A") = {}
    /\ Len(desired_ipv4) = 2
    /\ desired_ipv6 = <<>>
    /\ record_sets # <<>>
    /\ Cardinality(UpsertsOfType("A")) = 1

(***************************************************************************)
(* C6 Empty-desired no-op: with an empty desired set of a family and no    *)
(* listed record set of the type, the result holds no Change of the type.  *)
(***************************************************************************)
C6_EmptyDesiredNoOp ==
    \A type \in {"A", "AAAA"} :
        (DiffDone /\ IndicesOfType(type) = {} /\ DesiredOf(type) = <<>>) =>
            ChangesOfType(type) = {}

C6_Witness ==
    /\ DiffOk
    /\ desired_ipv4 = <<>>
    /\ IndicesOfType("A") = {}
    /\ ChangesOfType("A") = {}
    /\ desired_ipv6 # <<>>
    /\ UpsertsOfType("AAAA") # {}

(***************************************************************************)
(* get_hostname_record_sets: the paginated listing of one hostname.        *)
(* pages is the sequence of replies the provider gives to the successive   *)
(* page requests; past its end the provider has nothing more to list.      *)
(***************************************************************************)
Page(records, is_truncated, next_name, next_type) ==
    [fail |-> FALSE, resource_record_sets |-> records,
     is_truncated |-> is_truncated,
     next_record_name |-> next_name, next_record_type |-> next_type]

FailedPage ==
    [fail |-> TRUE, resource_record_sets |-> None, is_truncated |-> FALSE,
     next_record_name |-> None, next_record_type |-> None]

LastPage == Page(Some(<<>>), FALSE, None, None)

ListRequest(zone_id, start_name, start_type) ==
    [op |-> "list_resource_record_sets", hosted_zone_id |-> zone_id,
     start_record_name |-> start_name, start_record_type |-> start_type]

\* Mutant: a record of another name does not stop the listing.
FirstMismatch_NeverStops(records, hostname_dot) == 0

\* Index of the first record of the page whose name is not hostname_dot, or 0.
FirstMismatch(records, hostname_dot) ==
    LET other == {k \in 1..Len(records) : records[k].name # Some(hostname_dot)}
    IN  IF other = {} THEN 0 ELSE CHOOSE k \in other : \A j \in other : k <= j

\* Mutant: a failed page request is issued once more.
RECURSIVE ReadPages_Retries(_, _, _, _, _, _, _, _)
ReadPages_Retries(pages, p, results, requests, zone_id, start_name, start_type, hostname_dot) ==
    LET sent == Append(requests, ListRequest(zone_id, start_name, start_type))
        reply == IF p <= Len(pages) THEN pages[p] ELSE LastPage
        records == unwrap_or(reply.resource_record_sets, <<>>)
        stop == FirstMismatch(records, hostname_dot)
    IN  IF reply.fail
        THEN ReadPages_Retries(pages, p + 1, results, sent, zone_id, start_name,
                               start_type, hostname_dot)
        ELSE IF stop # 0
        THEN [result |-> Ok(results \o SubSeq(records, 1, stop - 1)), requests |-> sent]
        ELSE IF ~reply.is_truncated
        THEN [result |-> Ok(results \o records), requests |-> sent]
        ELSE IF reply.next_record_name = None \/ reply.next_record_type = None
        THEN [result |-> Err("Panic", "Option::unwrap"), requests |-> sent]
        ELSE ReadPages_Retries(pages, p + 1, results \o records, sent, zone_id,
                               reply.next_record_name[1], reply.next_record_type[1],
                               hostname_dot)

\* One round of the loop of update.rs:277-307 per page; the outcome is the
\* Result and the page requests that were sent.
RECURSIVE ReadPages(_, _, _, _, _, _, _, _)
ReadPages(pages, p, results, requests, zone_id, start_name, start_type, hostname_dot) ==
    LET sent == Append(requests, ListRequest(zone_id, start_name, start_type))
        reply == IF p <= Len(pages) THEN pages[p] ELSE LastPage
        records == unwrap_or(reply.resource_record_sets, <<>>)
        stop == FirstMismatch(records, hostname_dot)
    IN  IF reply.fail
        THEN [result |-> Err("TransportFailure", "list_resource_record_sets"),
              requests |-> sent]
        ELSE IF stop # 0
        THEN [result |-> Ok(results \o SubSeq(records, 1, stop - 1)), requests |-> sent]
        ELSE IF ~reply.is_truncated
        THEN [result |-> Ok(results \o records), requests |-> sent]
        ELSE IF reply.next_record_name = None \/ reply.next_record_type = None
        THEN [result |-> Err("Panic", "Option::unwrap"), requests |-> sent]
        ELSE ReadPages(pages, p + 1, results \o records, sent, zone_id,
                       reply.next_record_name[1], reply.next_record_type[1],
                       hostname_dot)

get_hostname_record_sets(pages, zone_id, hostname) ==
    ReadPages(pages, 1, <<>>, <<>>, zone_id, hostname, "A", hostname_dot_of(hostname))

(***************************************************************************)
(* Specification of the listing of one hostname                            *)
(***************************************************************************)
\* The records a page may hold: two of the hostname, the next name of the
\* zone, the hostname written without its trailing dot, and a nameless one.
ListedRecords ==
    {ResourceRecordSet(Some(<<"www", "example", "com", "">>), Some("A"), Some(300),
                       <<"1.1.1.1">>, None),
     ResourceRecordSet(Some(<<"www", "example", "com", "">>), Some("AAAA"), Some(300),
                       <<"::1">>, None),
     ResourceRecordSet(Some(<<"zzz", "example", "com", "">>), Some("A"), Some(300),
                       <<"2.2.2.2">>, None)}

OddRecords ==
    {ResourceRecordSet(Some(<<"www", "example", "com">>), Some("A"), Some(300),
                       <<"1.1.1.1">>, None),
     ResourceRecordSet(None, Some("A"), Some(300), <<"1.1.1.1">>, None)}

PageRecordsChoices ==
    {None} \cup {Some(rs) : rs \in BoundedSeq(ListedRecords, MaxPageRecords)}
           \cup {Some(<<r>>) : r \in OddRecords}

CursorChoices ==
    {<<Some(<<"www", "example", "com", "">>), Some("AAAA")>>,
     <<None, Some("AAAA")>>,
     <<Some(<<"www", "example", "com", "">>), None>>}

PageChoices ==
    {FailedPage}
    \cup {Page(rs, FALSE, None, None) : rs \in PageRecordsChoices}
    \cup {Page(rs, TRUE, c[1], c[2]) : rs \in PageRecordsChoices, c \in CursorChoices}

InitReader ==
    /\ list_hostname \in {<<"www", "example", "com">>, <<"www", "example", "com", "">>}
    /\ list_pages \in BoundedSeq(PageChoices, MaxPages)
    /\ list_out = None
    /\ DiffIdle
    /\ desired_ipv4 = <<>>
    /\ desired_ipv6 = <<>>
    /\ ZoneIdle
    /\ MainIdle

\* update.rs:262-308: the whole listing of the hostname.
ListRecordSets ==
    /\ list_out = None
    /\ list_out' = Some(get_hostname_record_sets(list_pages, "Z1", list_hostname))
    /\ UNCHANGED <<list_hostname, list_pages>>
    /\ UNCHANGED outsideReader

NextReader == ListRecordSets

SpecReader == InitReader /\ [][NextReader]_vars

(***************************************************************************)
(* update_zone and update_route53_zone                                     *)
(***************************************************************************)
POLL_INTERVAL_MS == 500

\* Mutant: the global default wins over the zone's.
zone_default_ttl_GlobalFirst(zone_ttl, dflt_ttl) ==
    IF dflt_ttl # None THEN dflt_ttl ELSE zone_ttl

\* update.rs:30-33
zone_default_ttl(zone_ttl, dflt_ttl) ==
    IF zone_ttl # None THEN zone_ttl ELSE dflt_ttl

Pending == <<"Pending">>

Insync == <<"Insync">>

Unknown(raw) == <<"Unknown", raw>>

ChangeInfo(id, status) == [id |-> id, status |-> status]

ChangeBatch(changes, hostnames) ==
    [changes |-> changes,
     comment |-> <<"Route 53 update for">>
                 \o [i \in 1..Len(hostnames) |-> get_hostname(hostnames[i])]]

ChangeRequest(zone_id, cb) ==
    [op |-> "change_resource_record_sets", hosted_zone_id |-> zone_id,
     change_batch |-> cb]

GetChangeRequest(id) == [op |-> "get_change", id |-> id]

SleepEvent(millis) == [op |-> "sleep", millis |-> millis]

StatusEvent(status) == [op |-> "status", status |-> status]

UnitOk == Ok(<<>>)

\* What the provider may answer to a submission and to a status query.
StatusChoices == {None, Some(Pending), Some(Insync), Some(Unknown("REVERTED"))}

SubmitReplies ==
    {[fail |-> TRUE, change_info |-> None],
     [fail |-> FALSE, change_info |-> None],
     [fail |-> FALSE, change_info |-> Some(ChangeInfo(None, Some(Pending)))]}
    \cup {[fail |-> FALSE, change_info |-> Some(ChangeInfo(Some("C1"), st))] :
             st \in StatusChoices}

GetChangeReplies ==
    {[fail |-> TRUE, change_info |-> None],
     [fail |-> FALSE, change_info |-> None]}
    \cup {[fail |-> FALSE, change_info |-> Some(ChangeInfo(Some("C1"), st))] :
             st \in StatusChoices}

\* What the provider may hold for the i-th hostname.
ListedTtls == {60, 120, 600}

ListedA(i, ttl) ==
    ResourceRecordSet(Some(hostname_dot_of(HostnameOf(i))), Some("A"), Some(ttl),
                      <<"1.1.1.1">>, None)

ListedAaaa(i, ttl) ==
    ResourceRecordSet(Some(hostname_dot_of(HostnameOf(i))), Some("AAAA"), Some(ttl),
                      <<"::1">>, None)

NextName ==
    ResourceRecordSet(Some(<<"zzz", "example", "com", "">>), Some("A"), Some(300),
                      <<"2.2.2.2">>, None)

\* A record the reconciliation rejects: its value is no address.
ListedInvalid(i) ==
    ResourceRecordSet(Some(hostname_dot_of(HostnameOf(i))), Some("A"), Some(300),
                      <<"not-an-address">>, None)

\* A record set of a routing policy: it carries a set identifier.
ListedRouted(i) ==
    ResourceRecordSet(Some(hostname_dot_of(HostnameOf(i))), Some("A"), Some(300),
                      <<"1.1.1.1">>, Some("weighted"))

ListingChoices(i) ==
    {<<LastPage>>, <<FailedPage>>,
     <<Page(Some(<<ListedRouted(i), ListedA(i, 600)>>), FALSE, None, None)>>,
     <<Page(Some(<<ListedInvalid(i)>>), FALSE, None, None)>>,
     <<Page(Some(<<ListedA(i, 300)>>), TRUE, None, Some("AAAA"))>>,
     <<Page(Some(<<ListedA(i, 300)>>), TRUE,
            Some(hostname_dot_of(HostnameOf(i))), Some("AAAA")),
       Page(Some(<<ListedAaaa(i, 300), NextName>>), FALSE, None, None)>>}
    \cup {<<Page(Some(<<ListedA(i, ttl)>>), FALSE, None, None)>> : ttl \in ListedTtls}

HostnamesChoices ==
    UNION {{hs \in [1..n -> {HostnameOnly(HostnameOf(i)) : i \in 1..n}
                            \cup {HostnameAndTtl(HostnameOf(i), 60) : i \in 1..n}] :
               \A i \in 1..n : get_hostname(hs[i]) = HostnameOf(i)} :
           n \in 1..MaxHostnames}

InitZone ==
    /\ DiffIdle
    /\ ReaderIdle
    /\ MainIdle
    /\ desired_ipv4 = <<V4(1)>>
    /\ desired_ipv6 \in DesiredIpv6Choices
    /\ \E hs \in HostnamesChoices, zttl \in {None, Some(120)} :
          /\ zone_config = [zone_id |-> "Z1", hostnames |-> hs, ttl |-> zttl]
          /\ provider_listing \in
                {pl \in [1..Len(hs) -> UNION {ListingChoices(i) : i \in 1..Len(hs)}] :
                    \A i \in 1..Len(hs) : pl[i] \in ListingChoices(i)}
          /\ futures = [i \in 1..Len(hs) |-> None]
    /\ config_ttl \in {None, Some(600)}
    /\ yielded = {}
    /\ all_changes = <<>>
    /\ zone_pc = "gather"
    /\ ci = None
    /\ change_id = None
    /\ trace = <<>>
    /\ replies = <<>>
    /\ zone_result = None

Return(result) ==
    /\ zone_result' = Some(result)
    /\ zone_pc' = "done"

\* Mutant: a failed output is logged and the aggregation goes on.
NextChanges_IgnoresErrors(changes) ==
    IF changes.ok
    THEN /\ all_changes' = all_changes \o changes.value
         /\ UNCHANGED <<zone_pc, zone_result>>
    ELSE UNCHANGED <<all_changes, zone_pc, zone_result>>

\* Mutant: the changes of the latest hostname replace the earlier ones.
NextChanges_KeepsLast(changes) ==
    IF changes.ok
    THEN /\ all_changes' = changes.value
         /\ UNCHANGED <<zone_pc, zone_result>>
    ELSE /\ Return(changes)
         /\ UNCHANGED all_changes

\* update.rs:51-59: the match on the output f.next() has yielded.
NextChanges(changes) ==
    IF changes.ok
    THEN /\ all_changes' = all_changes \o changes.value
         /\ UNCHANGED <<zone_pc, zone_result>>
    ELSE /\ Return(changes)
         /\ UNCHANGED all_changes

\* update.rs:41-59, 78-212 and 305-306: the future of the i-th hostname runs to
\* its end and f.next() yields its output at once; a panic of the reader unwinds
\* through update_zone, which is polled in the same task, so update_zone never
\* returns.
HostnameFuture(i) ==
    /\ zone_pc = "gather"
    /\ futures[i] = None
    /\ LET hc == zone_config.hostnames[i]
           listing == get_hostname_record_sets(provider_listing[i],
                                               zone_config.zone_id, get_hostname(hc))
           changes == get_changes_for_hostname(
                          listing.result, hc, desired_ipv4, desired_ipv6,
                          zone_default_ttl(zone_config.ttl, config_ttl))
       IN  /\ trace' = trace \o listing.requests
           /\ IF ~listing.result.ok /\ listing.result.err[1] = "Panic"
              THEN /\ zone_pc' = "panicked"
                   /\ UNCHANGED <<futures, yielded, all_changes, zone_result>>
              ELSE /\ futures' = [futures EXCEPT ![i] = Some(changes)]
                   /\ yielded' = yielded \cup {i}
                   /\ NextChanges(changes)
    /\ UNCHANGED <<replies, zone_config, config_ttl, provider_listing, ci, change_id>>
    /\ UNCHANGED outsideZone

\* Mutant: the batch is submitted even when it is empty.
GatherDone_AlwaysSubmits ==
    /\ zone_pc = "gather"
    /\ yielded = DOMAIN futures
    /\ zone_pc' = "submit"
    /\ UNCHANGED <<replies, zone_config, config_ttl, provider_listing, futures,
                   yielded, all_changes, ci, change_id, trace, zone_result>>
    /\ UNCHANGED outsideZone

\* update.rs:51 and 61-64: f.next() yields None; an empty list ends the update.
GatherDone ==
    /\ zone_pc = "gather"
    /\ yielded = DOMAIN futures
    /\ IF all_changes = <<>>
       THEN Return(UnitOk)
       ELSE zone_pc' = "submit" /\ UNCHANGED zone_result
    /\ UNCHANGED <<replies, zone_config, config_ttl, provider_listing, futures,
                   yielded, all_changes, ci, change_id, trace>>
    /\ UNCHANGED outsideZone

\* update.rs:221-236: submit the batch and take the change info and its id.
SubmitChanges ==
    /\ zone_pc = "submit"
    /\ trace' = Append(trace, ChangeRequest(zone_config.zone_id,
                                            ChangeBatch(all_changes, zone_config.hostnames)))
    /\ \E reply \in SubmitReplies :
          /\ replies' = Append(replies, reply)
          /\ IF reply.fail
             THEN /\ Return(Err("TransportFailure", "change_resource_record_sets"))
                  /\ UNCHANGED <<ci, change_id>>
             ELSE IF reply.change_info = None
             THEN /\ Return(Err("MissingExpectedAwsReplyField", "ChangeInfo"))
                  /\ UNCHANGED <<ci, change_id>>
             ELSE IF reply.change_info[1].id = None
             THEN /\ Return(Err("MissingExpectedAwsReplyField", "Id"))
                  /\ ci' = reply.change_info
                  /\ UNCHANGED change_id
             ELSE /\ ci' = reply.change_info
                  /\ change_id' = reply.change_info[1].id
                  /\ zone_pc' = "poll"
                  /\ UNCHANGED zone_result
    /\ UNCHANGED <<zone_config, config_ttl, provider_listing, futures,
                   yielded, all_changes>>
    /\ UNCHANGED outsideZone

\* Mutant: a status that is neither Insync nor Pending is polled again.
CheckStatus_UnknownRetries ==
    /\ zone_pc = "poll"
    /\ LET status == ci[1].status
       IN  /\ trace' = Append(trace, StatusEvent(status))
           /\ CASE status = None ->
                     Return(Err("MissingExpectedAwsReplyField", "Status"))
                [] status = Some(Insync) -> Return(UnitOk)
                [] OTHER -> zone_pc' = "sleep" /\ UNCHANGED zone_result
    /\ UNCHANGED <<replies, zone_config, config_ttl, provider_listing, futures,
                   yielded, all_changes, ci, change_id>>
    /\ UNCHANGED outsideZone

\* Mutant: a Pending status is queried again without sleeping.
CheckStatus_NoSleep ==
    /\ zone_pc = "poll"
    /\ LET status == ci[1].status
       IN  /\ trace' = Append(trace, StatusEvent(status))
           /\ CASE status = None ->
                     Return(Err("MissingExpectedAwsReplyField", "Status"))
                [] status = Some(Insync) -> Return(UnitOk)
                [] status = Some(Pending) ->
                     zone_pc' = "get_change" /\ UNCHANGED zone_result
                [] OTHER -> Return(Err("UnexpectedRoute53Status", status[1][2]))
    /\ UNCHANGED <<replies, zone_config, config_ttl, provider_listing, futures,
                   yielded, all_changes, ci, change_id>>
    /\ UNCHANGED outsideZone

\* Mutant: a change info without a status is polled again.
CheckStatus_MissingStatusRetries ==
    /\ zone_pc = "poll"
    /\ LET status == ci[1].status
       IN  /\ trace' = Append(trace, StatusEvent(status))
           /\ CASE status = Some(Insync) -> Return(UnitOk)
                [] status \in {None, Some(Pending)} ->
                     zone_pc' = "sleep" /\ UNCHANGED zone_result
                [] OTHER -> Return(Err("UnexpectedRoute53Status", status[1][2]))
    /\ UNCHANGED <<replies, zone_config, config_ttl, provider_listing, futures,
                   yielded, all_changes, ci, change_id>>
    /\ UNCHANGED outsideZone

\* Mutant: the poll gives up at the second Pending status.
CheckStatus_GivesUp ==
    /\ zone_pc = "poll"
    /\ LET status == ci[1].status
       IN  /\ trace' = Append(trace, StatusEvent(status))
           /\ CASE status = None ->
                     Return(Err("MissingExpectedAwsReplyField", "Status"))
                [] status = Some(Insync) -> Return(UnitOk)
                [] status = Some(Pending) ->
                     IF replies # <<>> /\ Len(replies) >= 2
                     THEN Return(Err("Timeout", "get_change"))
                     ELSE zone_pc' = "sleep" /\ UNCHANGED zone_result
                [] OTHER -> Return(Err("UnexpectedRoute53Status", status[1][2]))
    /\ UNCHANGED <<replies, zone_config, config_ttl, provider_listing, futures,
                   yielded, all_changes, ci, change_id>>
    /\ UNCHANGED outsideZone

\* update.rs:241-253 and 66-75: match on the status of the latest change info.
CheckStatus ==
    /\ zone_pc = "poll"
    /\ LET status == ci[1].status
       IN  /\ trace' = Append(trace, StatusEvent(status))
           /\ CASE status = None ->
                     Return(Err("MissingExpectedAwsReplyField", "Status"))
                [] status = Some(Insync) -> Return(UnitOk)
                [] status = Some(Pending) ->
                     zone_pc' = "sleep" /\ UNCHANGED zone_result
                [] OTHER -> Return(Err("UnexpectedRoute53Status", status[1][2]))
    /\ UNCHANGED <<replies, zone_config, config_ttl, provider_listing, futures,
                   yielded, all_changes, ci, change_id>>
    /\ UNCHANGED outsideZone

\* update.rs:250: the sleep of the Pending arm elapses.
Sleep ==
    /\ zone_pc = "sleep"
    /\ trace' = Append(trace, SleepEvent(POLL_INTERVAL_MS))
    /\ zone_pc' = "get_change"
    /\ UNCHANGED <<replies, zone_config, config_ttl, provider_listing, futures,
                   yielded, all_changes, ci, change_id, zone_result>>
    /\ UNCHANGED outsideZone

StatusQueries ==
    Cardinality({k \in 1..Len(trace) : trace[k].op = "get_change"})

\* Mutant: a failed status query submits the batch again.
GetChange_Resubmits ==
    /\ zone_pc = "get_change"
    /\ StatusQueries < MaxPolls
    /\ trace' = Append(trace, GetChangeRequest(change_id[1]))
    /\ \E reply \in GetChangeReplies :
          /\ replies' = Append(replies, reply)
          /\ IF reply.fail
             THEN /\ zone_pc' = "submit"
                  /\ UNCHANGED <<ci, zone_result>>
             ELSE IF reply.change_info = None
             THEN /\ Return(Err("MissingExpectedAwsReplyField", "ChangeInfo"))
                  /\ UNCHANGED ci
             ELSE /\ ci' = reply.change_info
                  /\ zone_pc' = "poll"
                  /\ UNCHANGED zone_result
    /\ UNCHANGED <<zone_config, config_ttl, provider_listing, futures,
                   yielded, all_changes, change_id>>
    /\ UNCHANGED outsideZone

\* update.rs:255-258: query the status of the change again.
GetChange ==
    /\ zone_pc = "get_change"
    /\ StatusQueries < MaxPolls
    /\ trace' = Append(trace, GetChangeRequest(change_id[1]))
    /\ \E reply \in GetChangeReplies :
          /\ replies' = Append(replies, reply)
          /\ IF reply.fail
             THEN /\ Return(Err("TransportFailure", "get_change"))
                  /\ UNCHANGED ci
             ELSE IF reply.change_info = None
             THEN /\ Return(Err("MissingExpectedAwsReplyField", "ChangeInfo"))
                  /\ UNCHANGED ci
             ELSE /\ ci' = reply.change_info
                  /\ zone_pc' = "poll"
                  /\ UNCHANGED zone_result
    /\ UNCHANGED <<zone_config, config_ttl, provider_listing, futures,
                   yielded, all_changes, change_id>>
    /\ UNCHANGED outsideZone

NextZone ==
    \/ \E i \in DOMAIN futures : HostnameFuture(i)
    \/ GatherDone
    \/ SubmitChanges
    \/ CheckStatus
    \/ Sleep
    \/ GetChange

SpecZone == InitZone /\ [][NextZone]_vars

(***************************************************************************)
(* Specification of update_route53_zone alone: update_zone has gathered    *)
(* the changes of a zone of one hostname for which nothing is listed and   *)
(* is about to submit them.                                                *)
(***************************************************************************)
InitPoll ==
    /\ DiffIdle
    /\ ReaderIdle
    /\ MainIdle
    /\ desired_ipv4 = <<V4(1)>>
    /\ desired_ipv6 \in DesiredIpv6Choices
    /\ \E zttl \in {None, Some(120)} :
          zone_config = [zone_id |-> "Z1", hostnames |-> <<HostnameOnly(Hostname)>>,
                         ttl |-> zttl]
    /\ config_ttl \in {None, Some(600)}
    /\ provider_listing = <<<<LastPage>>>>
    /\ LET listing == get_hostname_record_sets(provider_listing[1], zone_config.zone_id,
                                               Hostname)
           changes == get_changes_for_hostname(
                          listing.result, zone_config.hostnames[1], desired_ipv4,
                          desired_ipv6, zone_default_ttl(zone_config.ttl, config_ttl))
       IN  /\ futures = <<Some(changes)>>
           /\ all_changes = changes.value
           /\ trace = listing.requests
    /\ yielded = {1}
    /\ zone_pc = "submit"
    /\ ci = None
    /\ change_id = None
    /\ replies = <<>>
    /\ zone_result = None

NextPoll ==
    \/ SubmitChanges
    \/ CheckStatus
    \/ Sleep
    \/ GetChange

SpecPoll == InitPoll /\ [][NextPoll]_vars

\* The runtime keeps polling the task: a provider call gets its reply or its
\* failure and the sleep of update.rs:250 elapses.
SpecPollFair == SpecPoll /\ WF_vars(NextPoll)

(***************************************************************************)
(* main: configuration check, address discovery, the zone updates and the  *)
(* exit code.  The update of a zone is seen from main as the provider      *)
(* calls it issues, one per await, and the way it ends: it returns Ok, it  *)
(* returns Err, or it panics (the unwrap of update.rs:305-306).            *)
(***************************************************************************)
\* Mutant: only the absence of zones is an error.
check_ZonesOnly(cfg) ==
    IF cfg.route53_zones # <<>> THEN UnitOk
    ELSE Err("InvalidConfig", <<"route53-zones">>)

\* config.rs:151-173
check(cfg) ==
    LET service == IF cfg.query_ip_service /\ cfg.ip_service = ""
                   THEN <<"ip-service">> ELSE <<>>
        empty == SelectSeq(cfg.route53_zones, LAMBDA z : z.hostnames = <<>>)
        zones == IF cfg.route53_zones = <<>> THEN <<"route53-zones">>
                 ELSE [i \in 1..Len(empty) |-> empty[i].zone_id]
        messages == service \o zones
    IN  IF messages = <<>> THEN UnitOk ELSE Err("InvalidConfig", messages)

\* query_address_type.rs:20-25, for the global addresses the model draws.
allows_address(cfg, addr) ==
    IF addr.family = "V4" THEN cfg.address_type \in {"Both", "Ipv4"}
    ELSE cfg.address_type \in {"Both", "Ipv6"}

\* main.rs:47-71: the futures pushed to f, named by what they query.
DiscoveryFutures(cfg) ==
    (IF cfg.query_interfaces THEN {"interfaces"} ELSE {})
    \cup (IF cfg.query_ip_service /\ cfg.address_type \in {"Both", "Ipv4"}
          THEN {"Ipv4Only"} ELSE {})
    \cup (IF cfg.query_ip_service /\ cfg.address_type \in {"Both", "Ipv6"}
          THEN {"Ipv6Only"} ELSE {})

\* What a discovery query may come back with.
DiscoveryReplies(source) ==
    CASE source = "interfaces" ->
            {Err("Io", "NetworkInterface::show"), Ok(<<>>), Ok(<<V4(1), V6(1)>>)}
      [] source = "Ipv4Only" -> {Err("TransportFailure", "ip_service"), Ok(<<V4(2)>>)}
      [] source = "Ipv6Only" -> {Err("TransportFailure", "ip_service"), Ok(<<V6(2)>>)}

ZoneScripts ==
    [calls : 1..MaxZoneCalls, end : {"Ok", "Err", "Panic"}]

ZoneConfigChoices(i) ==
    {[zone_id |-> i, hostnames |-> hs, ttl |-> None] :
        hs \in {<<>>, <<HostnameOnly(Hostname)>>}}

ConfigChoices ==
    UNION {{[query_interfaces |-> qi, query_ip_service |-> qs, ip_service |-> svc,
             address_type |-> at, route53_zones |-> zs] :
               qi \in BOOLEAN, qs \in BOOLEAN, svc \in {"", "https://api64.ipify.org"},
               at \in {"Both", "Ipv4", "Ipv6"},
               zs \in {z \in [1..n -> UNION {ZoneConfigChoices(i) : i \in 1..n}] :
                          \A i \in 1..n : z[i].zone_id = i}} :
           n \in 0..MaxZones}

InitMain ==
    /\ config \in ConfigChoices
    /\ zone_script \in [1..Len(config.route53_zones) -> ZoneScripts]
    /\ main_pc = "check"
    /\ pending = {}
    /\ queries = <<>>
    /\ ipv4_addresses = {}
    /\ ipv6_addresses = {}
    /\ errors_found = FALSE
    /\ zone_calls = [i \in 1..Len(config.route53_zones) |-> 0]
    /\ zone_status = [i \in 1..Len(config.route53_zones) |-> "running"]
    /\ exit_code = None
    /\ DiffIdle
    /\ desired_ipv4 = <<>>
    /\ desired_ipv6 = <<>>
    /\ ZoneIdle
    /\ ReaderIdle

Exit(code) ==
    /\ exit_code' = Some(code)
    /\ main_pc' = "exit"

\* main.rs:41-44
CheckConfig ==
    /\ main_pc = "check"
    /\ IF check(config).ok
       THEN main_pc' = "push" /\ UNCHANGED exit_code
       ELSE Exit("FAILURE")
    /\ UNCHANGED <<config, zone_script, pending, queries, ipv4_addresses,
                   ipv6_addresses, errors_found, zone_calls, zone_status>>
    /\ UNCHANGED outsideMain

\* main.rs:47-76: the discovery futures are pushed; none is polled yet.
PushQueries ==
    /\ main_pc = "push"
    /\ pending' = DiscoveryFutures(config)
    /\ IF DiscoveryFutures(config) = {}
       THEN Exit("FAILURE")
       ELSE main_pc' = "discover" /\ UNCHANGED exit_code
    /\ UNCHANGED <<config, zone_script, queries, ipv4_addresses, ipv6_addresses,
                   errors_found, zone_calls, zone_status>>
    /\ UNCHANGED outsideMain

\* main.rs:82-99: a discovery future runs its query and f.next() yields it.
DiscoveryFuture(source) ==
    /\ main_pc = "discover"
    /\ source \in pending
    /\ pending' = pending \ {source}
    /\ \E result \in DiscoveryReplies(source) :
          /\ queries' = Append(queries, [source |-> source, ok |-> result.ok])
          /\ IF result.ok
             THEN LET allowed == {a \in Range(result.value) : allows_address(config, a)}
                  IN  /\ ipv4_addresses' = ipv4_addresses
                                              \cup {a \in allowed : a.family = "V4"}
                      /\ ipv6_addresses' = ipv6_addresses
                                              \cup {a \in allowed : a.family = "V6"}
                      /\ UNCHANGED errors_found
             ELSE /\ errors_found' = TRUE
                  /\ UNCHANGED <<ipv4_addresses, ipv6_addresses>>
    /\ UNCHANGED <<config, zone_script, main_pc, zone_calls, zone_status, exit_code>>
    /\ UNCHANGED outsideMain

\* Mutant: the errors of the discovery are logged and the run goes on.
DiscoveryDone_IgnoresErrors ==
    /\ main_pc = "discover"
    /\ pending = {}
    /\ main_pc' = "zones"
    /\ UNCHANGED exit_code
    /\ UNCHANGED <<config, zone_script, pending, queries, ipv4_addresses,
                   ipv6_addresses, errors_found, zone_calls, zone_status>>
    /\ UNCHANGED outsideMain

\* main.rs:82 and 101-131: f.next() yields None; the zone updates are pushed.
DiscoveryDone ==
    /\ main_pc = "discover"
    /\ pending = {}
    /\ IF errors_found
       THEN Exit("FAILURE")
       ELSE main_pc' = "zones" /\ UNCHANGED exit_code
    /\ UNCHANGED <<config, zone_script, pending, queries, ipv4_addresses,
                   ipv6_addresses, errors_found, zone_calls, zone_status>>
    /\ UNCHANGED outsideMain

\* update.rs:20-76 seen from main: the update of the i-th zone issues its
\* next provider call and awaits the reply.
ZoneCall(i) ==
    /\ main_pc = "zones"
    /\ zone_status[i] = "running"
    /\ zone_calls[i] < zone_script[i].calls
    /\ zone_calls' = [zone_calls EXCEPT ![i] = @ + 1]
    /\ UNCHANGED <<config, zone_script, main_pc, pending, queries, ipv4_addresses,
                   ipv6_addresses, errors_found, zone_status, exit_code>>
    /\ UNCHANGED outsideMain

\* Mutant: the latest zone result decides alone.
ZoneReturn_LastWins(i) ==
    /\ main_pc = "zones"
    /\ zone_status[i] = "running"
    /\ zone_calls[i] = zone_script[i].calls
    /\ zone_script[i].end # "Panic"
    /\ zone_status' = [zone_status EXCEPT ![i] = zone_script[i].end]
    /\ errors_found' = (zone_script[i].end = "Err")
    /\ UNCHANGED <<config, zone_script, main_pc, pending, queries, ipv4_addresses,
                   ipv6_addresses, zone_calls, exit_code>>
    /\ UNCHANGED outsideMain

\* main.rs:133-138: the update of the i-th zone returns and f.next() yields it.
ZoneReturn(i) ==
    /\ main_pc = "zones"
    /\ zone_status[i] = "running"
    /\ zone_calls[i] = zone_script[i].calls
    /\ zone_script[i].end # "Panic"
    /\ zone_status' = [zone_status EXCEPT ![i] = zone_script[i].end]
    /\ errors_found' = (errors_found \/ zone_script[i].end = "Err")
    /\ UNCHANGED <<config, zone_script, main_pc, pending, queries, ipv4_addresses,
                   ipv6_addresses, zone_calls, exit_code>>
    /\ UNCHANGED outsideMain

\* update.rs:305-306 under main.rs:133: the update of the i-th zone panics
\* while main polls it; the panic unwinds through main, the process ends with
\* status 101 and the futures of the other zones are dropped where they stand.
ZonePanic(i) ==
    /\ main_pc = "zones"
    /\ zone_status[i] = "running"
    /\ zone_calls[i] = zone_script[i].calls
    /\ zone_script[i].end = "Panic"
    /\ zone_status' = [zone_status EXCEPT ![i] = "panicked"]
    /\ Exit("101")
    /\ UNCHANGED <<config, zone_script, pending, queries, ipv4_addresses,
                   ipv6_addresses, errors_found, zone_calls>>
    /\ UNCHANGED outsideMain

\* main.rs:133 and 140-144: f.next() yields None.
ZonesDone ==
    /\ main_pc = "zones"
    /\ \A i \in DOMAIN zone_status : zone_status[i] # "running"
    /\ Exit(IF errors_found THEN "FAILURE" ELSE "SUCCESS")
    /\ UNCHANGED <<config, zone_script, pending, queries, ipv4_addresses,
                   ipv6_addresses, errors_found, zone_calls, zone_status>>
    /\ UNCHANGED outsideMain

NextMain ==
    \/ CheckConfig
    \/ PushQueries
    \/ \E source \in pending : DiscoveryFuture(source)
    \/ DiscoveryDone
    \/ \E i \in DOMAIN zone_status : ZoneCall(i)
    \/ \E i \in DOMAIN zone_status : ZoneReturn(i)
    \/ \E i \in DOMAIN zone_status : ZonePanic(i)
    \/ ZonesDone

SpecMain == InitMain /\ [][NextMain]_vars

(***************************************************************************)
(* Vocabulary of the properties of the zone update                         *)
(***************************************************************************)
ZoneDone == zone_pc = "done"

ZoneSucceeded == ZoneDone /\ zone_result = <<[ok |-> TRUE, value |-> <<>>, err |-> <<>>]>>

HostIndices == DOMAIN zone_config.hostnames

\* The TTL the configuration asks for the i-th hostname: its own, else the
\* zone's, else the global default, else 300 seconds.
PrecedenceTtl(i) ==
    IF zone_config.hostnames[i].ttl # <<>> THEN zone_config.hostnames[i].ttl[1]
    ELSE IF zone_config.ttl # <<>> THEN zone_config.ttl[1]
    ELSE IF config_ttl # <<>> THEN config_ttl[1]
    ELSE 300

FutureOk(i) == futures[i] # <<>> /\ futures[i][1].ok

UpsertsIn(changes) == {k \in 1..Len(changes) : changes[k].action = "UPSERT"}

\* The provider holds exactly one record set for the i-th hostname: an A
\* record set without set identifier with the desired IPv4 value.
SingleDesiredA(i) ==
    /\ Len(provider_listing[i]) = 1
    /\ ~provider_listing[i][1].fail
    /\ Len(provider_listing[i][1].resource_record_sets[1]) = 1
    /\ provider_listing[i][1].resource_record_sets[1][1].type = <<"A">>
    /\ provider_listing[i][1].resource_record_sets[1][1].set_identifier = <<>>
    /\ provider_listing[i][1].resource_record_sets[1][1].resource_records = <<"1.1.1.1">>

ListedTtl(i) == provider_listing[i][1].resource_record_sets[1][1].ttl

ChangesOfTypeIn(changes, type) ==
    {k \in 1..Len(changes) : changes[k].resource_record_set.type = <<type>>}

OpsIn(op) == {k \in 1..Len(trace) : trace[k].op = op}

(***************************************************************************)
(* C7 TTL precedence: the TTL compared with the listed record sets and     *)
(* written on every Upsert of a hostname is the hostname's TTL if set,     *)
(* else the zone's if set, else the global default if set, else 300.       *)
(***************************************************************************)
C7_TtlPrecedence ==
    /\ \A i \in HostIndices :
          FutureOk(i) =>
             /\ \A k \in UpsertsIn(futures[i][1].value) :
                   futures[i][1].value[k].resource_record_set.ttl = <<PrecedenceTtl(i)>>
             /\ SingleDesiredA(i) =>
                   IF ListedTtl(i) = <<PrecedenceTtl(i)>>
                   THEN ChangesOfTypeIn(futures[i][1].value, "A") = {}
                   ELSE /\ Cardinality(ChangesOfTypeIn(futures[i][1].value, "A")) = 1
                        /\ \A k \in ChangesOfTypeIn(futures[i][1].value, "A") :
                              futures[i][1].value[k].action = "UPSERT"
    /\ \A k \in UpsertsIn(all_changes) :
          \E i \in yielded :
             /\ all_changes[k].resource_record_set.name = <<zone_config.hostnames[i].hostname>>
             /\ all_changes[k].resource_record_set.ttl = <<PrecedenceTtl(i)>>

C7_Witness ==
    /\ Len(zone_config.hostnames) = 2
    /\ zone_config.ttl = <<120>>
    /\ config_ttl = <<600>>
    /\ zone_config.hostnames[1].ttl = <<60>>
    /\ zone_config.hostnames[2].ttl = <<>>
    /\ yielded = {1, 2}
    /\ FutureOk(1) /\ SingleDesiredA(1) /\ ListedTtl(1) = <<60>>
    /\ ChangesOfTypeIn(futures[1][1].value, "A") = {}
    /\ FutureOk(2) /\ SingleDesiredA(2) /\ ListedTtl(2) = <<600>>
    /\ \E k \in UpsertsIn(all_changes) :
          /\ all_changes[k].resource_record_set.type = <<"A">>
          /\ all_changes[k].resource_record_set.ttl = <<120>>

(***************************************************************************)
(* C8 No-op zone: once every hostname has delivered its changes and the    *)
(* merged list is empty, update_zone reports success and neither a change  *)
(* batch submission nor a status query is ever issued.                     *)
(***************************************************************************)
MergedEmpty ==
    /\ zone_pc # "gather"
    /\ yielded = HostIndices
    /\ \A i \in HostIndices : FutureOk(i)
    /\ all_changes = <<>>

C8_NoOpZone ==
    MergedEmpty =>
        /\ ZoneSucceeded
        /\ OpsIn("change_resource_record_sets") = {}
        /\ OpsIn("get_change") = {}
        /\ \A k \in 1..Len(trace) : trace[k].op = "list_resource_record_sets"

C8_Witness ==
    /\ MergedEmpty
    /\ ZoneSucceeded
    /\ Len(zone_config.hostnames) = 2
    /\ Len(trace) >= 3

(***************************************************************************)
(* C9 Poller terminal states: the first status seen that is not Pending    *)
(* ends the update: Insync with success, Unknown(raw) with an              *)
(* UnexpectedRoute53Status failure carrying raw; nothing is queried after  *)
(* it, and a terminal status in the submit reply means no status query.    *)
(***************************************************************************)
StatusEvents == OpsIn("status")

C9_PollerTerminal ==
    \A k \in StatusEvents :
        trace[k].status \in {<<<<"Insync">>>>, <<<<"Unknown", "REVERTED">>>>} =>
            /\ k = Len(trace)
            /\ ZoneDone
            /\ \A j \in OpsIn("get_change") : j < k
            /\ (\A j \in StatusEvents : j >= k) => OpsIn("get_change") = {}
            /\ IF trace[k].status = <<<<"Insync">>>>
               THEN ZoneSucceeded
               ELSE zone_result = <<[ok |-> FALSE, value |-> <<>>,
                                     err |-> <<"UnexpectedRoute53Status",
                                               trace[k].status[1][2]>>]>>

C9_Witness ==
    /\ ZoneDone
    /\ zone_result = <<[ok |-> FALSE, value |-> <<>>,
                        err |-> <<"UnexpectedRoute53Status", "REVERTED">>]>>
    /\ Cardinality(OpsIn("get_change")) = 1
    /\ trace[Len(trace)].op = "status"

(***************************************************************************)
(* C10 Pending retry: after the submission the update alternates status    *)
(* match, sleep and status query, a sleep only after a Pending status and  *)
(* a query only after the sleep; when the statuses seen are k times        *)
(* Pending and then Insync the update succeeds after exactly k sleeps and  *)
(* k status queries.                                                       *)
(***************************************************************************)
PendingThenInsync ==
    /\ StatusEvents # {}
    /\ \A k \in StatusEvents :
          IF \E j \in StatusEvents : j > k
          THEN trace[k].status = <<<<"Pending">>>>
          ELSE trace[k].status = <<<<"Insync">>>>

PendingSeen == {k \in StatusEvents : trace[k].status = <<<<"Pending">>>>}

C10_PendingRetry ==
    /\ \A k \in 1..Len(trace) :
          /\ trace[k].op = "status" =>
                /\ k > 1
                /\ trace[k - 1].op \in {"change_resource_record_sets", "get_change"}
          /\ trace[k].op = "sleep" =>
                /\ k > 1
                /\ trace[k - 1].op = "status"
                /\ trace[k - 1].status = <<<<"Pending">>>>
                /\ trace[k].millis = 500
          /\ trace[k].op = "get_change" =>
                /\ k > 2
                /\ trace[k - 1].op = "sleep"
                /\ trace[k - 2].op = "status"
                /\ trace[k - 2].status = <<<<"Pending">>>>
                /\ <<trace[k].id>> = change_id
    /\ PendingThenInsync =>
          /\ ZoneSucceeded
          /\ Cardinality(OpsIn("sleep")) = Cardinality(PendingSeen)
          /\ Cardinality(OpsIn("get_change")) = Cardinality(PendingSeen)

C10_Witness ==
    /\ PendingThenInsync
    /\ Cardinality(PendingSeen) = 2
    /\ ZoneSucceeded
    /\ Cardinality(OpsIn("sleep")) = 2
    /\ Cardinality(OpsIn("get_change")) = 2

(***************************************************************************)
(* C11 Missing reply fields are fatal: when the reply to the submission    *)
(* lacks the change info or its identifier, or the reply to the submission *)
(* or to a status query lacks the status, no provider call follows that    *)
(* reply and update_route53_zone ends with a MissingExpectedAwsReplyField  *)
(* failure.                                                                *)
(***************************************************************************)
LacksField(k) ==
    /\ ~replies[k].fail
    /\ \/ replies[k].change_info = <<>>
       \/ k = 1 /\ replies[k].change_info[1].id = <<>>
       \/ replies[k].change_info[1].status = <<>>

ProviderCalls == OpsIn("change_resource_record_sets") \cup OpsIn("get_change")

C11_MissingReplyFields ==
    \A k \in 1..Len(replies) :
        LacksField(k) =>
            /\ k = Len(replies)
            /\ Cardinality(ProviderCalls) = k
            /\ zone_pc \in {"poll", "done"}
            /\ ZoneDone =>
                  /\ ~zone_result[1].ok
                  /\ zone_result[1].err[1] = "MissingExpectedAwsReplyField"
                  /\ zone_result[1].err[2] \in {"ChangeInfo", "Id", "Status"}

C11_Witness ==
    /\ Len(replies) = 2
    /\ ~replies[2].fail
    /\ replies[2].change_info # <<>>
    /\ replies[2].change_info[1].status = <<>>
    /\ ZoneDone
    /\ zone_result = <<[ok |-> FALSE, value |-> <<>>,
                        err |-> <<"MissingExpectedAwsReplyField", "Status">>]>>
    /\ trace[Len(trace)].op = "status"

(***************************************************************************)
(* C13 Aggregator fail-fast, no partial apply: once the listing or the     *)
(* diff of a hostname of the zone has failed, update_zone has returned     *)
(* that failure and neither a change batch nor a status query is issued,   *)
(* also when other hostnames had already produced changes.                 *)
(***************************************************************************)
FutureFailed(i) == i \in yielded /\ futures[i] # <<>> /\ ~futures[i][1].ok

C13_FailFast ==
    \A i \in HostIndices :
        FutureFailed(i) =>
            /\ ZoneDone
            /\ zone_result = futures[i]
            /\ futures[i][1].value = <<>>
            /\ OpsIn("change_resource_record_sets") = {}
            /\ OpsIn("get_change") = {}
            /\ replies = <<>>

C13_Witness ==
    /\ Len(zone_config.hostnames) = 2
    /\ yielded = {1, 2}
    /\ FutureOk(1)
    /\ futures[1][1].value # <<>>
    /\ all_changes = futures[1][1].value
    /\ FutureFailed(2)
    /\ futures[2][1].err[1] = "InvalidIpAddr"
    /\ ZoneDone
    /\ zone_result = futures[2]
    /\ OpsIn("change_resource_record_sets") = {}

(***************************************************************************)
(* C15 Single batch, submitted exactly once: a zone never issues more than *)
(* one change batch submission; once every hostname has delivered its      *)
(* changes and the merged list is not empty, the submission that follows   *)
(* is the only one, also when a status query fails afterwards, and its     *)
(* batch holds every Change of every hostname exactly as many times as the *)
(* hostnames produced it.                                                  *)
(***************************************************************************)
Submissions == OpsIn("change_resource_record_sets")

\* The changes the hostnames produced, as (hostname index, position).
Produced ==
    UNION {{<<i, k>> : k \in 1..Len(futures[i][1].value)} :
           i \in {j \in HostIndices : FutureOk(j)}}

ProducedChange(p) == futures[p[1]][1].value[p[2]]

MergedNonEmpty ==
    /\ yielded = HostIndices
    /\ \A i \in HostIndices : FutureOk(i)
    /\ Produced # {}

C15_SingleBatch ==
    /\ Cardinality(Submissions) <= 1
    /\ \A k \in Submissions :
          /\ MergedNonEmpty
          /\ Len(trace[k].change_batch.changes) = Cardinality(Produced)
          /\ \A p \in Produced :
                Cardinality({j \in 1..Len(trace[k].change_batch.changes) :
                                trace[k].change_batch.changes[j] = ProducedChange(p)})
                    = Cardinality({q \in Produced : ProducedChange(q) = ProducedChange(p)})
    /\ MergedNonEmpty /\ zone_pc \in {"poll", "sleep", "get_change", "done"} =>
          Cardinality(Submissions) = 1

C15_Witness ==
    /\ Len(zone_config.hostnames) = 2
    /\ MergedNonEmpty
    /\ futures[1][1].value # <<>>
    /\ futures[2][1].value # <<>>
    /\ ZoneDone
    /\ zone_result = <<[ok |-> FALSE, value |-> <<>>,
                        err |-> <<"TransportFailure", "get_change">>]>>
    /\ Cardinality(Submissions) = 1
    /\ Cardinality(OpsIn("get_change")) = 2

(***************************************************************************)
(* C18 InvalidAddress, as stated: when a listed A record set holds a value *)
(* that is not an IPv4 address, or a listed AAAA record set a value that   *)
(* is not an IPv6 address, and no record set listed before it lacks its    *)
(* type, get_changes_for_hostname fails with InvalidIpAddr and returns no  *)
(* changes.                                                                *)
(***************************************************************************)
Ipv4Literals == {"1.1.1.1", "2.2.2.2"}

Ipv6Literals == {"::1", "0:0:0:0:0:0:0:1", "::2"}

LiteralsOf(type) == IF type = "A" THEN Ipv4Literals ELSE Ipv6Literals

\* The i-th listed record set holds a value that is no address of its family.
NotOfFamily(i) ==
    \E type \in {"A", "AAAA"} :
        /\ record_sets[i].type = <<type>>
        /\ \E j \in 1..Len(record_sets[i].resource_records) :
              record_sets[i].resource_records[j] \notin LiteralsOf(type)

TypedBefore(i) == \A j \in 1..(i - 1) : record_sets[j].type # <<>>

C18_AsStated ==
    DiffDone =>
        \A i \in 1..Len(record_sets) :
            NotOfFamily(i) /\ TypedBefore(i) =>
                /\ ~diff_result[1].ok
                /\ diff_result[1].err[1] = "InvalidIpAddr"
                /\ diff_result[1].value = <<>>

(***************************************************************************)
(* C19 Replace in place: when the listed record sets hold exactly one of a *)
(* type (A or AAAA), it has no set identifier, it differs from the desired *)
(* state in values or in TTL and the desired set of the family is not      *)
(* empty, the Changes of the type in the result are exactly one Upsert of  *)
(* the hostname with the desired TTL and values: no Delete and no second   *)
(* Upsert.                                                                 *)
(***************************************************************************)
SingleStale(type) ==
    /\ Cardinality(IndicesOfType(type)) = 1
    /\ \A i \in IndicesOfType(type) :
          /\ record_sets[i].set_identifier = <<>>
          /\ ~Matches(record_sets[i], type)
    /\ DesiredOf(type) # <<>>

C19_ReplaceInPlace ==
    \A type \in {"A", "AAAA"} :
        (DiffOk /\ SingleStale(type)) =>
            /\ Cardinality(ChangesOfType(type)) = 1
            /\ \A k \in ChangesOfType(type) : IsDesiredUpsert(DiffChanges[k], type)

C19_Witness ==
    /\ DiffOk
    /\ SingleStale("A")
    /\ \E i \in IndicesOfType("A") :
          /\ record_sets[i].ttl = <<60>>
          /\ record_sets[i].resource_records = <<"1.1.1.1">>
    /\ Len(desired_ipv4) = 2
    /\ ExpectedTtl = 300
    /\ Len(record_sets) = 1
    /\ Len(DiffChanges) = 1
    /\ IsDesiredUpsert(DiffChanges[1], "A")

(***************************************************************************)
(* C20 Foreign-only records: when every listed record set of a type (A or  *)
(* AAAA) carries a set identifier and the desired set of the family is not *)
(* empty, the Changes of the type in the result are a Delete of each of    *)
(* those record sets and, after all of them, exactly one Upsert of the     *)
(* hostname with the desired TTL and values.                               *)
(***************************************************************************)
ForeignOnly(type) ==
    /\ IndicesOfType(type) # {}
    /\ \A i \in IndicesOfType(type) : record_sets[i].set_identifier # <<>>
    /\ DesiredOf(type) # <<>>

DeletesOfType(type) ==
    {k \in ChangesOfType(type) : DiffChanges[k].action = "DELETE"}

C20_ForeignOnly ==
    \A type \in {"A", "AAAA"} :
        (DiffOk /\ ForeignOnly(type)) =>
            /\ \A i \in IndicesOfType(type) :
                  Cardinality(DeletesOf(record_sets[i]))
                      = Cardinality(Occurrences(record_sets[i]))
            /\ Cardinality(DeletesOfType(type)) = Cardinality(IndicesOfType(type))
            /\ Cardinality(UpsertsOfType(type)) = 1
            /\ \A k \in UpsertsOfType(type) :
                  /\ IsDesiredUpsert(DiffChanges[k], type)
                  /\ \A j \in DeletesOfType(type) : j < k

C20_Witness ==
    /\ DiffOk
    /\ ForeignOnly("A")
    /\ Len(record_sets) = 1
    /\ Len(DiffChanges) = 2
    /\ DiffChanges[1] = [action |-> "DELETE", resource_record_set |-> record_sets[1]]
    /\ IsDesiredUpsert(DiffChanges[2], "A")

(***************************************************************************)
(* C16 Record Set Reader: get_hostname_record_sets returns exactly the     *)
(* records, in listing order across the pages it requested, that precede   *)
(* the first record whose name is not the hostname with a trailing dot     *)
(* appended when absent; a page is requested after another only when every *)
(* record of that one matched and it was reported truncated, and then at   *)
(* the cursor it gave; no page is requested after a mismatch or after a    *)
(* page that is not truncated.                                             *)
(***************************************************************************)
ListDone == list_out # <<>>

PagesRequested == IF ListDone THEN Len(list_out[1].requests) ELSE 0

\* The hostname as the provider spells it.
DottedHostname ==
    IF list_hostname[Len(list_hostname)] = "" THEN list_hostname
    ELSE list_hostname \o <<"">>

\* The reply to the p-th page request and the records it holds.
PageAt(p) ==
    IF p <= Len(list_pages) THEN list_pages[p]
    ELSE [fail |-> FALSE, resource_record_sets |-> <<<<>>>>, is_truncated |-> FALSE,
          next_record_name |-> <<>>, next_record_type |-> <<>>]

RecordsAt(p) ==
    IF PageAt(p).fail \/ PageAt(p).resource_record_sets = <<>> THEN <<>>
    ELSE PageAt(p).resource_record_sets[1]

\* The records of the requested pages, as (page, position), in listing order.
ListedAt == UNION {{<<p, k>> : k \in 1..Len(RecordsAt(p))} : p \in 1..PagesRequested}

ListedBefore(a, b) == a[1] < b[1] \/ (a[1] = b[1] /\ a[2] < b[2])

Mismatch(a) == RecordsAt(a[1])[a[2]].name # <<DottedHostname>>

PageMismatch(p) == \E k \in 1..Len(RecordsAt(p)) : Mismatch(<<p, k>>)

\* The listed records that precede the first mismatch.
Kept == {a \in ListedAt : \A b \in ListedAt : (b = a \/ ListedBefore(b, a)) => ~Mismatch(b)}

C16_RecordSetReader ==
    ListDone =>
        /\ PagesRequested >= 1
        /\ list_out[1].result.ok =>
              /\ Len(list_out[1].result.value) = Cardinality(Kept)
              /\ \A a \in Kept :
                    list_out[1].result.value[Cardinality({b \in Kept : ListedBefore(b, a)}) + 1]
                        = RecordsAt(a[1])[a[2]]
              /\ PageMismatch(PagesRequested) \/ ~PageAt(PagesRequested).is_truncated
        /\ \A p \in 1..PagesRequested :
              /\ list_out[1].requests[p].op = "list_resource_record_sets"
              /\ p < PagesRequested =>
                    /\ ~PageAt(p).fail
                    /\ ~PageMismatch(p)
                    /\ PageAt(p).is_truncated
                    /\ <<list_out[1].requests[p + 1].start_record_name>>
                          = PageAt(p).next_record_name
                    /\ <<list_out[1].requests[p + 1].start_record_type>>
                          = PageAt(p).next_record_type

C16_Witness ==
    /\ ListDone
    /\ list_hostname = <<"www", "example", "com">>
    /\ PagesRequested = 2
    /\ Len(RecordsAt(1)) = 2
    /\ Len(RecordsAt(2)) = 2
    /\ ~Mismatch(<<2, 1>>)
    /\ Mismatch(<<2, 2>>)
    /\ PageAt(2).is_truncated
    /\ list_out[1].result.ok
    /\ Len(list_out[1].result.value) = 3
    /\ list_out[1].result.value[3] = RecordsAt(2)[1]

(***************************************************************************)
(* Vocabulary of the properties of main                                    *)
(***************************************************************************)
ProcessEnded == exit_code # <<>>

Zones == DOMAIN zone_status

NoZoneCall == \A i \in Zones : zone_calls[i] = 0

(***************************************************************************)
(* C12 Zone independence, as stated: when the process has ended and the    *)
(* update of a zone has failed, by returning an error or by panicking,     *)
(* every other zone has issued all the provider calls of its update and    *)
(* has reached the result its update ends with.                            *)
(***************************************************************************)
C12_AsStated ==
    ProcessEnded =>
        \A i \in Zones :
            zone_status[i] \in {"Err", "panicked"} =>
                \A j \in Zones \ {i} :
                    zone_script[j].end # "Panic" =>
                        /\ zone_calls[j] = zone_script[j].calls
                        /\ zone_status[j] = zone_script[j].end

(***************************************************************************)
(* C14 Process exit contract: the process ends with SUCCESS when every     *)
(* zone update returned Ok; it ends with FAILURE when no discovery source  *)
(* is enabled and when every discovery query failed; when a zone update    *)
(* returned an error it never ends with SUCCESS, however many zones        *)
(* succeeded, and it ends with FAILURE unless a panic ended it first.      *)
(***************************************************************************)
C14_ExitContract ==
    ProcessEnded =>
        /\ (Zones # {} /\ \A i \in Zones : zone_status[i] = "Ok")
              => exit_code = <<"SUCCESS">>
        /\ (~config.query_interfaces /\ ~config.query_ip_service)
              => exit_code = <<"FAILURE">>
        /\ (queries # <<>> /\ pending = {} /\ \A k \in 1..Len(queries) : ~queries[k].ok)
              => exit_code = <<"FAILURE">>
        /\ (\E i \in Zones : zone_status[i] = "Err") =>
              /\ exit_code # <<"SUCCESS">>
              /\ (\A i \in Zones : zone_status[i] # "panicked")
                    => exit_code = <<"FAILURE">>

C14_Witness ==
    /\ ProcessEnded
    /\ Len(zone_status) = 2
    /\ zone_status[1] = "Err"
    /\ zone_status[2] = "Ok"
    /\ zone_calls[2] = 2
    /\ Len(queries) = 3
    /\ exit_code = <<"FAILURE">>

(***************************************************************************)
(* C17 Configuration is validated before any network activity: when no     *)
(* zone is configured, or a zone has no hostnames, or neither discovery    *)
(* source is enabled, no discovery query and no provider call is ever      *)
(* issued, and the process ends with FAILURE.                              *)
(***************************************************************************)
ConfigInvalid ==
    \/ config.route53_zones = <<>>
    \/ \E i \in 1..Len(config.route53_zones) : config.route53_zones[i].hostnames = <<>>
    \/ ~config.query_interfaces /\ ~config.query_ip_service

C17_ValidatedFirst ==
    (main_pc # "idle" /\ ConfigInvalid) =>
        /\ queries = <<>>
        /\ NoZoneCall
        /\ main_pc \in {"check", "push", "exit"}
        /\ ProcessEnded => exit_code = <<"FAILURE">>

C17_Witness ==
    /\ ProcessEnded
    /\ exit_code = <<"FAILURE">>
    /\ config.query_interfaces
    /\ Len(config.route53_zones) = 2
    /\ config.route53_zones[1].hostnames # <<>>
    /\ config.route53_zones[2].hostnames = <<>>
    /\ queries = <<>>
    /\ NoZoneCall

(***************************************************************************)
(* C21 Order of the change list: the change list is a run of Changes, each *)
(* derived from a listed record set (a Delete of it, or an Upsert of its   *)
(* type when it has no set identifier), taken from record sets in the      *)
(* order of the listing, followed by at most two Upserts that create what  *)
(* is missing, the A create before the AAAA create.                        *)
(***************************************************************************)
\* The k-th change may stem from the i-th listed record set.
StemsFrom(k, i) ==
    \/ /\ DiffChanges[k].action = "DELETE"
       /\ DiffChanges[k].resource_record_set = record_sets[i]
    \/ /\ DiffChanges[k].action = "UPSERT"
       /\ DiffChanges[k].resource_record_set.type = record_sets[i].type
       /\ record_sets[i].set_identifier = <<>>

\* The k-th smallest element of a set of indices.
KthOf(S, k) == CHOOSE i \in S : Cardinality({j \in S : j < i}) = k - 1

\* The last t changes create missing record sets, A before AAAA.
TrailingCreates(t) ==
    /\ \A k \in (Len(DiffChanges) - t + 1)..Len(DiffChanges) :
          /\ DiffChanges[k].action = "UPSERT"
          /\ \A i \in 1..Len(record_sets) :
                record_sets[i].type = DiffChanges[k].resource_record_set.type
                    => DeletesOf(record_sets[i]) # {}
    /\ t = 2 =>
          /\ DiffChanges[Len(DiffChanges) - 1].resource_record_set.type = <<"A">>
          /\ DiffChanges[Len(DiffChanges)].resource_record_set.type = <<"AAAA">>

C21_ChangeOrder ==
    DiffOk =>
        \E t \in 0..2 :
            /\ t <= Len(DiffChanges)
            /\ TrailingCreates(t)
            /\ \E S \in SUBSET (1..Len(record_sets)) :
                  /\ Cardinality(S) = Len(DiffChanges) - t
                  /\ \A k \in 1..Cardinality(S) : StemsFrom(k, KthOf(S, k))

C21_Witness ==
    /\ DiffOk
    /\ Len(record_sets) = 3
    /\ record_sets[1].type = <<"CNAME">>
    /\ record_sets[2].type = <<"TXT">>
    /\ record_sets[3].type = <<"A">>
    /\ Len(DiffChanges) = 4
    /\ DiffChanges[1] = [action |-> "DELETE", resource_record_set |-> record_sets[1]]
    /\ DiffChanges[2] = [action |-> "DELETE", resource_record_set |-> record_sets[3]]
    /\ IsDesiredUpsert(DiffChanges[3], "A")
    /\ IsDesiredUpsert(DiffChanges[4], "AAAA")

(***************************************************************************)
(* C22 Other record types are left untouched: a listed record set whose    *)
(* type is none of A, AAAA and CNAME is the record set of no Change, no    *)
(* Change has its type, and the result is the one get_changes_for_hostname *)
(* gives for the same list without the record sets of other types.         *)
(***************************************************************************)
OtherType(r) == r.type # <<>> /\ r.type \notin {<<"A">>, <<"AAAA">>, <<"CNAME">>}

OthersListed == {i \in 1..Len(record_sets) : OtherType(record_sets[i])}

WithoutOthers == SelectSeq(record_sets, LAMBDA r : ~OtherType(r))

C22_OtherTypesUntouched ==
    DiffDone =>
        /\ \A i \in OthersListed :
              \A k \in 1..Len(DiffChanges) :
                  /\ DiffChanges[k].resource_record_set # record_sets[i]
                  /\ DiffChanges[k].resource_record_set.type # record_sets[i].type
        /\ diff_result[1] =
              get_changes_for_hostname(
                  [ok |-> TRUE, value |-> WithoutOthers, err |-> <<>>],
                  hostname_config, desired_ipv4, desired_ipv6, default_ttl)

C22_Witness ==
    /\ DiffOk
    /\ Len(record_sets) = 3
    /\ record_sets[1].type = <<"A">>
    /\ record_sets[2].type = <<"TXT">>
    /\ record_sets[2].set_identifier # <<>>
    /\ record_sets[3].type = <<"CNAME">>
    /\ Len(DiffChanges) = 2
    /\ IsDesiredUpsert(DiffChanges[1], "A")
    /\ DiffChanges[2] = [action |-> "DELETE", resource_record_set |-> record_sets[3]]

(***************************************************************************)
(* C23 Reader failure, no retry: when a page request of the listing fails, *)
(* it is the last request get_hostname_record_sets issues, so it is not    *)
(* issued again, and the result is that failure with no record list, also  *)
(* when earlier pages had delivered records.                               *)
(***************************************************************************)
FailedRequests == {p \in 1..PagesRequested : PageAt(p).fail}

C23_ReaderFailure ==
    ListDone =>
        \A p \in FailedRequests :
            /\ p = PagesRequested
            /\ FailedRequests = {p}
            /\ list_out[1].result =
                  [ok |-> FALSE, value |-> <<>>,
                   err |-> <<"TransportFailure", "list_resource_record_sets">>]

C23_Witness ==
    /\ ListDone
    /\ PagesRequested = 2
    /\ Len(RecordsAt(1)) = 2
    /\ ~PageMismatch(1)
    /\ FailedRequests = {2}
    /\ ~list_out[1].result.ok
    /\ list_out[1].result.value = <<>>
    /\ list_out[1].requests[2].start_record_type = "AAAA"

(***************************************************************************)
(* C25 Missing pagination cursor, as stated: when the last page requested  *)
(* was delivered, held no record of another name, was reported truncated   *)
(* and lacked the next record name or the next record type, the result of  *)
(* get_hostname_record_sets is a MissingExpectedAwsReplyField error.       *)
(***************************************************************************)
CursorMissing(p) ==
    /\ ~PageAt(p).fail
    /\ ~PageMismatch(p)
    /\ PageAt(p).is_truncated
    /\ PageAt(p).next_record_name = <<>> \/ PageAt(p).next_record_type = <<>>

C25_AsStated ==
    (ListDone /\ CursorMissing(PagesRequested)) =>
        /\ ~list_out[1].result.ok
        /\ list_out[1].result.err[1] = "MissingExpectedAwsReplyField"

(***************************************************************************)
(* C24 Unbounded poll: update_route53_zone returns after the submission    *)
(* only on an Insync status, a status that is neither Pending nor Insync,  *)
(* a missing reply field or a failed provider call; whenever the first k   *)
(* statuses observed are all Pending a further status query follows; and   *)
(* once a reply reports Insync the zone update succeeds.                   *)
(***************************************************************************)
LastReply == replies[Len(replies)]

ReturnedOnTerminal ==
    \/ LastReply.fail
    \/ LastReply.change_info = <<>>
    \/ Len(replies) = 1 /\ LastReply.change_info[1].id = <<>>
    \/ /\ LastReply.change_info[1].status # <<<<"Pending">>>>
       /\ trace[Len(trace)].op = "status"
       /\ trace[Len(trace)].status = LastReply.change_info[1].status

\* Exactly k statuses were observed so far and all of them were Pending.
PendingRun(k) ==
    /\ Cardinality(StatusEvents) = k
    /\ PendingSeen = StatusEvents
    /\ StatusQueries = k - 1

InsyncReported ==
    /\ replies # <<>>
    /\ ~LastReply.fail
    /\ LastReply.change_info # <<>>
    /\ LastReply.change_info[1].id # <<>>
    /\ LastReply.change_info[1].status = <<<<"Insync">>>>

C24_UnboundedPoll ==
    /\ []((ZoneDone /\ replies # <<>>) => ReturnedOnTerminal)
    /\ \A k \in 1..MaxPolls : PendingRun(k) ~> (StatusQueries = k)
    /\ InsyncReported ~> ZoneSucceeded

C24_Witness ==
    /\ ZoneSucceeded
    /\ Cardinality(PendingSeen) = MaxPolls
    /\ StatusQueries = MaxPolls
    /\ InsyncReported

(***************************************************************************)
(* C26 Interleaving is immaterial: for a zone in which the listing and the *)
(* diff of every hostname succeed, the batch holds when it is submitted,   *)
(* whatever the order in which the hostnames completed, exactly the        *)
(* Changes that get_changes_for_hostname gives for each hostname on its    *)
(* own, each as many times as the hostnames give it.                       *)
(***************************************************************************)
\* What the i-th hostname gives on its own.
OwnResult(i) ==
    get_changes_for_hostname(
        get_hostname_record_sets(provider_listing[i], zone_config.zone_id,
                                 zone_config.hostnames[i].hostname).result,
        zone_config.hostnames[i], desired_ipv4, desired_ipv6,
        IF zone_config.ttl # <<>> THEN zone_config.ttl ELSE config_ttl)

\* The positions (hostname, index) of the changes in own that equal c.
OwnCopies(own, c) ==
    UNION {{<<i, k>> : k \in {n \in 1..Len(own[i]) : own[i][n] = c}} : i \in DOMAIN own}

BatchCopies(batch, c) == {j \in 1..Len(batch) : batch[j] = c}

C26_InterleavingImmaterial ==
    \A s \in Submissions \cap {Len(trace)} :
        LET results == [i \in HostIndices |-> OwnResult(i)]
            own == [i \in HostIndices |-> results[i].value]
            batch == trace[s].change_batch.changes
        IN  (\A i \in HostIndices : results[i].ok) =>
                \A c \in Range(batch) \cup UNION {Range(own[i]) : i \in HostIndices} :
                    Cardinality(BatchCopies(batch, c)) = Cardinality(OwnCopies(own, c))

\* The second hostname completed before the first.
C26_Witness ==
    /\ Len(zone_config.hostnames) = 2
    /\ Submissions # {}
    /\ OwnResult(1).ok /\ OwnResult(1).value # <<>>
    /\ OwnResult(2).ok /\ OwnResult(2).value # <<>>
    /\ \A s \in Submissions :
          trace[s].change_batch.changes = OwnResult(2).value \o OwnResult(1).value
    /\ trace[1].start_record_name = zone_config.hostnames[2].hostname

(***************************************************************************)
(* C27 Upsert shape: a successful change list holds at most one Upsert of  *)
(* type A and at most one of type AAAA; every Upsert names the configured  *)
(* hostname, has no set identifier, carries the desired TTL and exactly    *)
(* the desired addresses of its family; a family with nothing desired gets *)
(* no Upsert.                                                              *)
(***************************************************************************)
Upserts == {k \in 1..Len(DiffChanges) : DiffChanges[k].action = "UPSERT"}

C27_UpsertShape ==
    DiffOk =>
        /\ \A type \in {"A", "AAAA"} :
              /\ Cardinality(UpsertsOfType(type)) <= 1
              /\ DesiredOf(type) = <<>> => UpsertsOfType(type) = {}
        /\ \A k \in Upserts :
              \E type \in {"A", "AAAA"} : IsDesiredUpsert(DiffChanges[k], type)

\* Two listed A record sets without set identifier both differ from the
\* desired addresses, the hostname has its own TTL, and the list holds one
\* Upsert of each family.
C27_Witness ==
    /\ DiffOk
    /\ hostname_config.ttl = <<60>>
    /\ Cardinality(UnroutedOfType("A")) >= 2
    /\ \A i \in UnroutedOfType("A") : ~Matches(record_sets[i], "A")
    /\ Cardinality(UpsertsOfType("A")) = 1
    /\ Cardinality(UpsertsOfType("AAAA")) = 1
    /\ Len(desired_ipv4) = 2

(***************************************************************************)
(* C28 Convergence: when the listed record sets hold at most one record    *)
(* set per (type, set identifier) and the reconciliation succeeds,         *)
(* applying its Changes (a Delete removes that exact record set, an Upsert *)
(* creates or replaces the record set of its type without set identifier)  *)
(* gives a list for which the reconciliation returns no Change; there each *)
(* family with desired addresses has exactly one record set, holding the   *)
(* desired values and TTL, and no other A, AAAA or CNAME record set is     *)
(* left.                                                                   *)
(***************************************************************************)
OnePerSlot ==
    \A i, j \in 1..Len(record_sets) :
        (/\ record_sets[i].type = record_sets[j].type
         /\ record_sets[i].set_identifier = record_sets[j].set_identifier) => i = j

SameSlot(r, rrs) == r.type = rrs.type /\ r.set_identifier = <<>>

ApplyChange(list, c) ==
    LET rrs == c.resource_record_set
    IN  IF c.action = "DELETE"
        THEN SelectSeq(list, LAMBDA r : r # rrs)
        ELSE IF \E i \in 1..Len(list) : SameSlot(list[i], rrs)
        THEN [i \in 1..Len(list) |-> IF SameSlot(list[i], rrs) THEN rrs ELSE list[i]]
        ELSE Append(list, rrs)

RECURSIVE ApplyChanges(_, _, _)
ApplyChanges(list, changes, k) ==
    IF k > Len(changes) THEN list
    ELSE ApplyChanges(ApplyChange(list, changes[k]), changes, k + 1)

Applied == ApplyChanges(record_sets, DiffChanges, 1)

AppliedOfType(type) == {i \in 1..Len(Applied) : Applied[i].type = <<type>>}

C28_Convergence ==
    (DiffOk /\ OnePerSlot) =>
        /\ get_changes_for_hostname([ok |-> TRUE, value |-> Applied, err |-> <<>>],
                                    hostname_config, desired_ipv4, desired_ipv6,
                                    default_ttl)
              = [ok |-> TRUE, value |-> <<>>, err |-> <<>>]
        /\ \A type \in {"A", "AAAA"} :
              IF DesiredOf(type) = <<>>
              THEN AppliedOfType(type) = {}
              ELSE /\ Cardinality(AppliedOfType(type)) = 1
                   /\ \A i \in AppliedOfType(type) : Matches(Applied[i], type)
        /\ AppliedOfType("CNAME") = {}

\* A listed A record set is replaced, a CNAME and a routed record set are
\* deleted and the AAAA record set is created.
C28_Witness ==
    /\ DiffOk
    /\ OnePerSlot
    /\ Len(record_sets) = 3
    /\ UnroutedOfType("A") # {}
    /\ UpsertsOfType("A") # {}
    /\ IndicesOfType("AAAA") = {}
    /\ UpsertsOfType("AAAA") # {}
    /\ IndicesOfType("CNAME") # {}
    /\ Len(DiffChanges) = 4
    /\ Len(Applied) = 2

(***************************************************************************)
(* C29 No conflicting changes in a batch: when the hostnames of the zone   *)
(* are pairwise distinct names and the provider holds at most one record   *)
(* set per (name, type, set identifier), no two Changes of a submitted     *)
(* batch target the same (name, type, set identifier): no Delete and       *)
(* Upsert of the same record set, no two Upserts of the same (name, type). *)
(* Names are compared as DNS names, with or without the trailing dot.      *)
(***************************************************************************)
TargetOf(c) ==
    <<hostname_dot_of(c.resource_record_set.name[1]), c.resource_record_set.type,
      c.resource_record_set.set_identifier>>

DistinctHostnames ==
    \A i, j \in HostIndices :
        hostname_dot_of(zone_config.hostnames[i].hostname)
            = hostname_dot_of(zone_config.hostnames[j].hostname) => i = j

\* Every record set the provider lists, as (hostname index, page, position).
Held ==
    UNION {UNION {{<<i, p, k>> :
                      k \in 1..Len(unwrap_or(provider_listing[i][p].resource_record_sets,
                                             <<>>))} :
                  p \in 1..Len(provider_listing[i])} :
           i \in HostIndices}

HeldRecord(h) == provider_listing[h[1]][h[2]].resource_record_sets[1][h[3]]

HeldKey(h) ==
    <<HeldRecord(h).name, HeldRecord(h).type, HeldRecord(h).set_identifier>>

\* A key is listed once for a hostname; two hostnames that are listed the
\* same key are listed the same record set.
OnePerKey ==
    \A g, h \in Held :
        HeldKey(g) = HeldKey(h) =>
            IF g[1] = h[1] THEN g = h ELSE HeldRecord(g) = HeldRecord(h)

C29_NoConflict ==
    (DistinctHostnames /\ OnePerKey) =>
        \A s \in Submissions :
            LET batch == trace[s].change_batch.changes
            IN  \A a, b \in 1..Len(batch) :
                    TargetOf(batch[a]) = TargetOf(batch[b]) => a = b

\* A batch of two hostnames that deletes the routed A record set of a name
\* and upserts the A record set of the same name.
C29_Witness ==
    /\ DistinctHostnames
    /\ OnePerKey
    /\ Len(zone_config.hostnames) = 2
    /\ \E s \in Submissions :
          LET batch == trace[s].change_batch.changes
          IN  /\ \E a, b \in 1..Len(batch) :
                    /\ batch[a].action = "DELETE"
                    /\ batch[b].action = "UPSERT"
                    /\ TargetOf(batch[a])[1] = TargetOf(batch[b])[1]
                    /\ TargetOf(batch[a])[2] = TargetOf(batch[b])[2]
              /\ \E a, b \in 1..Len(batch) :
                    TargetOf(batch[a])[1] # TargetOf(batch[b])[1]

(***************************************************************************)
(* C30 Discovery errors stop the run: once an enabled discovery query has  *)
(* returned an error no zone-management call is ever issued; the process   *)
(* keeps taking the remaining discovery results and, when all of them have *)
(* come, its next step is the exit with FAILURE, also when the other       *)
(* queries returned addresses.                                             *)
(***************************************************************************)
QueryFailed == \E k \in 1..Len(queries) : ~queries[k].ok

AllQueriesDone ==
    /\ pending = {}
    /\ {queries[k].source : k \in 1..Len(queries)} = DiscoveryFutures(config)

C30_DiscoveryErrorsStop ==
    /\ [](QueryFailed =>
            /\ NoZoneCall
            /\ main_pc \in {"discover", "exit"}
            /\ ProcessEnded => (exit_code = <<"FAILURE">> /\ AllQueriesDone))
    /\ [][(QueryFailed /\ ~ProcessEnded) =>
            \/ Len(queries') = Len(queries) + 1
            \/ AllQueriesDone /\ exit_code' = <<"FAILURE">>]_vars

\* The first of three queries failed, the two others returned addresses.
C30_Witness ==
    /\ ProcessEnded
    /\ exit_code = <<"FAILURE">>
    /\ Len(queries) = 3
    /\ ~queries[1].ok
    /\ queries[2].ok
    /\ queries[3].ok
    /\ ipv4_addresses # {}
    /\ ipv6_addresses # {}
    /\ Zones # {}
    /\ NoZoneCall

====
